---------------------------- MODULE Spec2Model ----------------------------
(***************************************************************************)
(* Model of the requirement analyser: ambiguity and assumption detection,  *)
(* component scoring, the readiness aggregator and the clarifying-question *)
(* generators (src/core/*.py).                                             *)
(*                                                                         *)
(* Representation.                                                         *)
(*   - A Python str is a string; Len, \o, SubSeq, Head and Tail act on it  *)
(*     as on a sequence of characters, so substring tests, lower() and     *)
(*     character offsets are computed.                                     *)
(*   - A text is a sequence of words (each a str); its str is the words    *)
(*     joined by single blanks, and text.split() gives back the words.     *)
(*   - A float is an exact rational, kept as a numerator over a stated     *)
(*     denominator; round(x, 1) gives an integer number of tenths          *)
(*     (round-half-even on the exact value).                               *)
(***************************************************************************)
EXTENDS Integers, Sequences, FiniteSets, TLC

VARIABLES
    pc,                   \* position of the caller
    text,                 \* the text argument, as its words
    nlp,                  \* the pipeline the detector loaded in __init__
    doc,                  \* the Doc handed to a detector helper: its tokens
    ambiguity_issues,     \* List[AmbiguityIssue] handed to the scorer
    ambiguity_analysis,   \* dict returned by calculate_ambiguity_score
    assumption_issues,    \* List[AssumptionIssue] handed to the scorer
    assumption_analysis,  \* dict returned by calculate_assumption_score
    assumption_components, \* the three scores _calculate_component_with_strength gave
    ambiguity_score,      \* float argument of calculate_readiness_score
    assumption_score,     \* float argument of calculate_readiness_score
    readiness,            \* what calculate_readiness_score / classify_readiness gave
    formatted_issues,     \* List[Dict] handed to _generate_clarifying_questions
    questions,            \* the question list returned
    given_issues,         \* the issues argument of generate_suggestions
    always_ask,           \* the always_ask argument of generate_suggestions
    suggestions,          \* the list generate_suggestions returned
    result,               \* what the last call of analyze_text[_with_caching] returned
    returned,             \* history: for every text, the results analyze_text returned
    score_cache,          \* OptimizedRequirementScorer.score_cache, in insertion order
    clock,                \* time.time()
    callers,              \* the threads inside analyze_text_with_caching: place and locals
    hash_of,              \* hash() of this process on the normalised texts, where followed
    appended,             \* the word appended to the text
    previous              \* the issues and the analysis of the text before the append

detectorVars == <<nlp, doc>>
ambiguityVars == <<ambiguity_issues, ambiguity_analysis>>
assumptionVars == <<assumption_issues, assumption_analysis, assumption_components>>
readinessVars == <<ambiguity_score, assumption_score, readiness>>
questionVars == <<formatted_issues, questions>>
suggestionVars == <<given_issues, always_ask, suggestions>>
analysisVars == <<result, returned>>
cacheVars == <<score_cache, clock, callers, hash_of>>
appendVars == <<appended, previous>>

vars == <<pc, text, detectorVars, ambiguityVars, assumptionVars, readinessVars,
          questionVars, suggestionVars, analysisVars, cacheVars, appendVars>>

-----------------------------------------------------------------------------
(* Bounds of the model. *)

\* longest text, in words, handed to a scorer
MaxWords == 12
\* most issues of one kind in an ambiguity issue list
MaxCount == 7
\* most copies of one issue in an assumption issue list
MaxRepeat == 4
\* distance, in tenths, between two score arguments handed to the readiness score
ScoreStep == 25
\* most steps of ScoreStep a score argument is away from 0
MaxScoreSteps == 120
\* most copies of one issue in a formatted issue list
MaxCopies == 2
\* longest text, in words, handed to the detector before a word is appended
MaxTextWords == 5
\* seconds that pass between two readings of the clock that differ
TickSeconds == 1800
\* most times the clock moves on
MaxTicks == 2
\* threads that call analyze_text_with_caching on one scorer
NumCallers == 2
\* width in bits of the hash values followed
HashBits == 1
\* longest text, in words, whose detected issues are kept next to its analysis
MaxResultWords == 3
\* most issues of a list whose strengths are classified
MaxStrengthIssues == 2
\* longest text, in words, whose Doc or str is handed to a detector helper
MaxSpanWords == 2
\* most words of a text handed to detect_ambiguities
MaxDetectWords == 4
\* most words that follow the action phrase of a text handed to both detectors
MaxIssueWords == 2

\* the pipelines AmbiguityDetector.__init__ can end up with
Pipelines == {"en_core_web_sm", "blank"}

\* "if len(self.score_cache) > 1000"
CacheLimit == 1000
\* "< 3600": the time a cached result stays valid, in seconds
CacheTtl == 3600

-----------------------------------------------------------------------------
(* Strings. *)

Min(a, b) == IF a <= b THEN a ELSE b
Max(a, b) == IF a >= b THEN a ELSE b

UpperCase == "ABCDEFGHIJKLMNOPQRSTUVWXYZ"
LowerCase == "abcdefghijklmnopqrstuvwxyz"

\* the lower-case letter of every upper-case letter
LowerOf ==
    [c \in {SubSeq(UpperCase, k, k) : k \in 1..26} |->
        LET k == CHOOSE k \in 1..26 : SubSeq(UpperCase, k, k) = c
        IN  SubSeq(LowerCase, k, k)]

\* c.lower() for one character
LowerChar(c) == IF c \in DOMAIN LowerOf THEN LowerOf[c] ELSE c

RECURSIVE Lower(_)
\* str.lower()
Lower(s) == IF s = "" THEN "" ELSE LowerChar(Head(s)) \o Lower(Tail(s))

\* sub in s
Contains(s, sub) ==
    \E i \in 0..(Len(s) - Len(sub)) : SubSeq(s, i + 1, i + Len(sub)) = sub

\* any(p in s for p in patterns)
ContainsAny(s, patterns) == \E k \in 1..Len(patterns) : Contains(s, patterns[k])

\* x in list
InList(x, list) == \E k \in 1..Len(list) : list[k] = x

RECURSIVE Join(_)
\* " ".join(words)
Join(words) ==
    IF words = <<>> THEN ""
    ELSE IF Len(words) = 1 THEN words[1]
    ELSE words[1] \o " " \o Join(Tail(words))

\* len(text.split()) for a text given by its words
WordCount(t) == Len(t)

\* a text of n filler words
Filler(n) == [i \in 1..n |-> "a"]

-----------------------------------------------------------------------------
(* Rounding. *)

\* round(num/den, 1) in tenths, den > 0, num >= 0: round-half-even
Round1(num, den) ==
    LET q == (10 * num) \div den
        r == (10 * num) % den
    IN  IF 2 * r > den THEN q + 1
        ELSE IF 2 * r = den THEN q + (q % 2)
        ELSE q

-----------------------------------------------------------------------------
(* AmbiguityIssue and the issues the detector builds. *)

SubjectiveIssue(tok) ==
    [type |-> "Subjective term", text |-> tok,
     message |-> "Subjective term '" \o tok \o "' lacks specific, measurable criteria"]

WeakModalityIssue(tok) ==
    [type |-> "Weak modality", text |-> tok,
     message |-> "Optional/weak requirement term: '" \o tok \o "'"]

UndefinedReferenceIssue(tok) ==
    [type |-> "Undefined reference", text |-> tok,
     message |-> "Potentially undefined reference: '" \o tok \o "'"]

NonTestableIssue(match) ==
    [type |-> "Non-testable statement", text |-> match,
     message |-> "Non-testable requirement: '" \o match \o "'"]

-----------------------------------------------------------------------------
(* Ambiguity detection: AmbiguityDetector.detect_ambiguities.  The doc is    *)
(* the tokens of text.lower(); for a text of plain words separated by single *)
(* blanks the tokenizer gives the words, token.idx being the offset of the   *)
(* word in the str.  nlp is the pipeline __init__ loaded: "en_core_web_sm",  *)
(* or "blank" after the OSError fallback, which assigns no pos_ and no dep_. *)

\* self.subjective_terms
subjective_terms ==
    {"accessible", "adequate", "appropriate", "clean", "compatible", "correct",
     "efficient", "fast", "flexible", "intuitive", "optimal", "portable", "proper",
     "quick", "rapid", "reliable", "responsive", "robust", "safe", "scalable",
     "seamless", "secure", "slow", "smooth", "stable", "sufficient", "user-friendly"}

\* self.weak_modality_terms
weak_modality_terms ==
    {"as needed", "can", "could", "ideally", "if possible", "may", "might",
     "preferably", "should", "when necessary"}

\* self.undefined_references
undefined_references ==
    {"it", "that", "the application", "the component", "the system", "the user",
     "these", "this", "those"}

\* self.non_testable_patterns: each r"head.*tail" as its two literals
non_testable_patterns ==
    <<[head |-> "handle", tail |-> "properly"],
      [head |-> "work", tail |-> "correctly"],
      [head |-> "function", tail |-> "properly"],
      [head |-> "behave", tail |-> "correctly"],
      [head |-> "perform", tail |-> "properly"],
      [head |-> "process", tail |-> "correctly"]>>

\* s[i], 1-based, as a str of one character
Char(s, i) == SubSeq(s, i, i)

IsDigit(c) == c \in {"0", "1", "2", "3", "4", "5", "6", "7", "8", "9"}

\* \s of a pattern
IsSpace(c) == c \in {" ", "\t", "\n", "\r", "\f"}

\* sub occurs in s at position p
StartsAt(s, p, sub) == p + Len(sub) - 1 <= Len(s) /\ SubSeq(s, p, p + Len(sub) - 1) = sub

\* the positions right after a match of \s*(?:a|b|...) that begins at position p
AfterSpacesThenAny(s, p, alternatives) ==
    {e \in 1..(Len(s) + 1) :
        \E q \in p..Len(s), a \in 1..Len(alternatives) :
            /\ \A r \in p..(q - 1) : IsSpace(Char(s, r))
            /\ StartsAt(s, q, alternatives[a])
            /\ e = q + Len(alternatives[a])}

\* re.search(r"\d+", s)
HasDigits(s) == \E p \in 1..Len(s) : IsDigit(Char(s, p))

\* re.search(r"\d+\s*(?:a|b|...)", s)
HasDigitsThenAny(s, alternatives) ==
    \E p \in 1..Len(s) : IsDigit(Char(s, p)) /\ AfterSpacesThenAny(s, p + 1, alternatives) # {}

\* re.search(r"\d+\.\d+", s)
HasDecimal(s) ==
    \E p \in 1..(Len(s) - 2) :
        IsDigit(Char(s, p)) /\ Char(s, p + 1) = "." /\ IsDigit(Char(s, p + 2))

\* re.search(r"\d+\s*(?:%|percent)\s*uptime", s)
HasPercentUptime(s) ==
    \E p \in 1..Len(s) :
        /\ IsDigit(Char(s, p))
        /\ \E e \in AfterSpacesThenAny(s, p + 1, <<"%", "percent">>) :
               AfterSpacesThenAny(s, e, <<"uptime">>) # {}

\* re.search(r"a.?b", s): a, at most one character other than a newline, b
HasWithOptionalGap(s, a, b) ==
    \E p \in 1..Len(s) :
        /\ StartsAt(s, p, a)
        /\ \/ StartsAt(s, p + Len(a), b)
           \/ /\ p + Len(a) <= Len(s)
              /\ Char(s, p + Len(a)) # "\n"
              /\ StartsAt(s, p + Len(a) + 1, b)

\* token.idx: the offset of word i in the str of the words
TokenIdx(words, i) == IF i = 1 THEN 0 ELSE Len(Join(SubSeq(words, 1, i - 1))) + 1

\* text[max(0, start - size) : min(len(text), end + size)].lower()
ContextWindow(s, token_start, token_end, window_size) ==
    Lower(SubSeq(s, Max(0, token_start - window_size) + 1,
                 Min(Len(s), token_end + window_size)))

\* _has_quantitative_context on the lower-cased window of 50 characters either side
QuantitativePatterns(w) ==
    \/ HasDigits(w)
    \/ HasDigitsThenAny(w, <<"ms", "sec", "second", "minute", "hour", "day">>)
    \/ HasDigitsThenAny(w, <<"%", "percent">>)
    \/ HasDigitsThenAny(w, <<"px", "pixel", "mb", "gb", "kb">>)
    \/ HasDigitsThenAny(w, <<"user", "request", "transaction", "operation">>)
    \/ ContainsAny(w, <<"less than", "greater than", "at least", "at most">>)
    \/ HasDecimal(w)
    \/ ContainsAny(w, <<"zero", "one", "two", "three", "four", "five", "six", "seven",
                        "eight", "nine", "ten">>)

\* the timing_patterns of _has_performance_context
PerformancePatterns(w) ==
    \/ HasDigitsThenAny(w, <<"ms", "millisecond", "sec", "second", "minute">>)
    \/ ContainsAny(w, <<"under", "within", "less than", "no more than">>)
    \/ ContainsAny(w, <<"response time", "load time", "render time">>)
    \/ HasDigitsThenAny(w, <<"fps">>) \/ Contains(w, "frames per second")
    \/ ContainsAny(w, <<"latency", "throughput", "bandwidth">>)

\* the security_patterns of _has_security_context
SecurityPatterns(w) ==
    \/ ContainsAny(w, <<"encryption", "ssl", "tls", "https", "oauth", "jwt", "saml">>)
    \/ ContainsAny(w, <<"authentication", "authorization", "auth">>)
    \/ ContainsAny(w, <<"firewall", "vpn", "certificate", "key">>)
    \/ ContainsAny(w, <<"sql injection", "xss", "csrf", "attack", "threat">>)
    \/ ContainsAny(w, <<"password", "credential", "token", "session">>)
    \/ ContainsAny(w, <<"aes", "rsa", "sha", "hash", "salt">>)

\* the usability_patterns of _has_usability_context
UsabilityPatterns(w) ==
    \/ ContainsAny(w, <<"accessibility", "wcag", "contrast", "font size">>)
    \/ ContainsAny(w, <<"click", "tap", "gesture", "navigation", "menu">>)
    \/ ContainsAny(w, <<"error message", "feedback", "guidance">>)
    \/ ContainsAny(w, <<"learning curve", "training time">>)
    \/ ContainsAny(w, <<"efficiency", "effectiveness", "satisfaction">>)
    \/ ContainsAny(w, <<"task completion", "success rate", "error rate">>)

\* the reliability_patterns of _has_reliability_context
ReliabilityPatterns(w) ==
    \/ HasPercentUptime(w)
    \/ ContainsAny(w, <<"mean time", "mtbf", "mttr">>)
    \/ ContainsAny(w, <<"availability", "sla", "downtime">>)
    \/ ContainsAny(w, <<"redundancy", "failover", "backup">>)
    \/ ContainsAny(w, <<"error rate", "failure rate", "recovery">>)
    \/ HasDigitsThenAny(w, <<"nines">>) \/ ContainsAny(w, <<"five nines", "four nines">>)

\* the scalability_patterns of _has_scalability_context
ScalabilityPatterns(w) ==
    \/ HasDigitsThenAny(w, <<"user", "request", "transaction", "connection">>)
    \/ ContainsAny(w, <<"concurrent", "simultaneous", "parallel">>)
    \/ ContainsAny(w, <<"horizontal", "vertical">>) \/ HasWithOptionalGap(w, "auto", "scal")
    \/ ContainsAny(w, <<"load balanc", "cluster", "distributed">>)
    \/ ContainsAny(w, <<"peak", "maximum", "capacity", "throughput">>)
    \/ ContainsAny(w, <<"elastic", "dynamic">>) \/ HasWithOptionalGap(w, "on", "demand")

\* should_flag of _detect_subjective_terms for the token at token_start
ShouldFlag(token_text, token_start, s) ==
    LET token_end == token_start + Len(token_text)
        window(size) == ContextWindow(s, token_start, token_end, size)
    IN  IF token_text = "fast" THEN ~PerformancePatterns(window(100))
        ELSE IF token_text \in {"secure", "safe"} THEN ~SecurityPatterns(window(150))
        ELSE IF token_text = "user-friendly" THEN ~UsabilityPatterns(window(100))
        ELSE IF token_text = "reliable" THEN ~ReliabilityPatterns(window(100))
        ELSE IF token_text = "scalable" THEN ~ScalabilityPatterns(window(100))
        ELSE ~QuantitativePatterns(window(50))

\* the tokens of the doc: the words of text.lower()
Tokens(words) == [i \in 1..Len(words) |-> Lower(words[i])]

RECURSIVE SubjectiveFrom(_, _, _, _)
\* the loop of _detect_subjective_terms over the tokens from token i on
SubjectiveFrom(tokens, words, s, i) ==
    IF i > Len(tokens) THEN <<>>
    ELSE (IF /\ tokens[i] \in subjective_terms
             /\ ShouldFlag(tokens[i], TokenIdx(words, i), s)
          THEN <<SubjectiveIssue(tokens[i])>> ELSE <<>>)
         \o SubjectiveFrom(tokens, words, s, i + 1)

\* _detect_subjective_terms(doc, original_text)
DetectSubjectiveTerms(words) == SubjectiveFrom(Tokens(words), words, Join(words), 1)

\* _detect_weak_modality(doc, original_text)
DetectWeakModality(words) ==
    LET tokens == Tokens(words)
        hits == SelectSeq(tokens, LAMBDA tok : tok \in weak_modality_terms)
    IN  [k \in 1..Len(hits) |-> WeakModalityIssue(hits[k])]

\* _is_undefined_reference(token, doc): pos_ is "PRON" or dep_ is "det" or "poss".  The
\* blank pipeline assigns neither; the loaded pipeline is taken to tag the single-word
\* entries of self.undefined_references as pronouns or determiners.
IsUndefinedReference(pipeline, tok) == pipeline = "en_core_web_sm"

\* _detect_undefined_references(doc, original_text)
DetectUndefinedReferences(pipeline, words) ==
    LET tokens == Tokens(words)
        hits == SelectSeq(tokens, LAMBDA tok : /\ tok \in undefined_references
                                               /\ IsUndefinedReference(pipeline, tok))
    IN  [k \in 1..Len(hits) |-> UndefinedReferenceIssue(hits[k])]

\* the least and the greatest position at which sub occurs in s; 0 when it does not
FirstIndex(s, sub) ==
    IF Contains(s, sub)
    THEN CHOOSE p \in 1..Len(s) :
             StartsAt(s, p, sub) /\ \A r \in 1..(p - 1) : ~StartsAt(s, r, sub)
    ELSE 0

LastIndex(s, sub) ==
    IF Contains(s, sub)
    THEN CHOOSE p \in 1..Len(s) :
             StartsAt(s, p, sub) /\ \A r \in (p + 1)..Len(s) : ~StartsAt(s, r, sub)
    ELSE 0

\* re.finditer(r"head.*tail", text_lower) on a text of one line: the one match there can
\* be runs from the first head to the end of the last tail after it
NonTestableMatches(text_lower, pattern) ==
    LET first == FirstIndex(text_lower, pattern.head)
        last == LastIndex(text_lower, pattern.tail)
    IN  IF first # 0 /\ last >= first + Len(pattern.head)
        THEN <<SubSeq(text_lower, first, last + Len(pattern.tail) - 1)>>
        ELSE <<>>

RECURSIVE NonTestableFrom(_, _)
\* the loop of _detect_non_testable_statements over the patterns from pattern k on
NonTestableFrom(text_lower, k) ==
    IF k > Len(non_testable_patterns) THEN <<>>
    ELSE LET matches == NonTestableMatches(text_lower, non_testable_patterns[k])
         IN  [j \in 1..Len(matches) |-> NonTestableIssue(matches[j])]
             \o NonTestableFrom(text_lower, k + 1)

\* _detect_non_testable_statements(text)
DetectNonTestableStatements(words) == NonTestableFrom(Lower(Join(words)), 1)

\* detect_ambiguities(text) by the detector whose pipeline is given
DetectAmbiguities(pipeline, words) ==
    DetectSubjectiveTerms(words) \o DetectWeakModality(words)
        \o DetectUndefinedReferences(pipeline, words) \o DetectNonTestableStatements(words)

-----------------------------------------------------------------------------
(* Ambiguity scoring: AmbiguityDetector.calculate_ambiguity_score. *)

\* AMBIGUITY_WEIGHTS["Subjective term"][category]
SubjectiveCategoryWeight(category) ==
    CASE category = "performance" -> 6
      [] category = "quality" -> 5
      [] category = "usability" -> 8
      [] category = "reliability" -> 8
      [] category = "security" -> 9
      [] category = "scalability" -> 7
      [] category = "efficiency" -> 6
      [] category = "accuracy" -> 10
      [] category = "compatibility" -> 7
      [] category = "maintainability" -> 6
      [] OTHER -> 8

\* category_mapping of _get_subjective_term_weight, in dict order
subjective_category_mapping ==
    <<[key |-> "performance",
       value |->
           <<"fast", "slow", "quick", "rapid", "speedy", "swift", "brisk",
                "sluggish", "laggy", "smooth", "responsive", "snappy", "nimble",
                "agile", "zippy", "crawling", "glacial", "lethargic", "tardy",
                "delayed", "unresponsive", "clunky", "fluid", "seamless",
                "effortless", "lightning", "blazing", "superfast", "ultrafast">>],
      [key |-> "quality",
       value |->
           <<"good", "bad", "better", "best", "worse", "worst", "excellent",
                "poor", "superior", "inferior", "great", "terrible", "superb",
                "awful", "outstanding", "mediocre", "exceptional", "subpar",
                "premium", "low-quality", "high-quality", "top-notch", "first-rate",
                "second-rate", "world-class", "substandard", "impressive", "dismal",
                "stellar", "pathetic", "magnificent", "shoddy", "splendid", "lousy">>],
      [key |-> "usability",
       value |->
           <<"easy", "hard", "simple", "complex", "intuitive", "confusing",
                "user-friendly", "difficult", "straightforward", "complicated",
                "accessible", "inaccessible", "ergonomic", "awkward", "natural",
                "unnatural", "obvious", "non-obvious", "self-explanatory",
                "puzzling", "clear", "unclear", "transparent", "opaque",
                "learnable", "steep", "gentle", "frustrating", "pleasing",
                "annoying">>],
      [key |-> "reliability",
       value |->
           <<"reliable", "unreliable", "robust", "fragile", "stable", "unstable",
                "consistent", "inconsistent", "dependable", "flaky", "trustworthy",
                "untrustworthy", "solid", "breakable", "steady", "erratic",
                "predictable", "unpredictable", "bulletproof", "vulnerable",
                "resilient", "brittle", "fault-tolerant", "failure-prone">>],
      [key |-> "security",
       value |->
           <<"secure", "insecure", "safe", "unsafe", "protected", "vulnerable",
                "trustworthy", "risky", "encrypted", "exposed", "guarded",
                "defenseless", "fortified", "weak", "tamper-proof", "hackable",
                "authenticated", "unauthenticated", "authorized", "unauthorized",
                "validated", "unvalidated", "sanitized", "contaminated">>],
      [key |-> "scalability",
       value |->
           <<"scalable", "non-scalable", "flexible", "rigid", "adaptable",
                "inflexible", "extensible", "limited", "expandable", "constrained",
                "elastic", "static", "dynamic", "fixed", "modular", "monolithic",
                "distributed", "centralized", "cloud-ready", "on-premise",
                "horizontal", "vertical", "auto-scaling", "manual">>],
      [key |-> "efficiency",
       value |->
           <<"efficient", "inefficient", "optimal", "suboptimal", "effective",
                "ineffective", "productive", "wasteful", "streamlined",
                "cumbersome", "lean", "bloated", "concise", "verbose", "succinct",
                "redundant", "economical", "extravagant", "frugal", "lavish",
                "thrifty", "wasteful", "resourceful", "profligate">>],
      [key |-> "accuracy",
       value |->
           <<"accurate", "inaccurate", "precise", "imprecise", "exact",
                "inexact", "correct", "incorrect", "right", "wrong", "valid",
                "invalid", "true", "false", "factual", "erroneous", "authentic",
                "fake", "genuine", "counterfeit", "legitimate", "bogus">>],
      [key |-> "compatibility",
       value |->
           <<"compatible", "incompatible", "interoperable", "non-interoperable",
                "universal", "proprietary", "standard", "custom", "open", "closed",
                "cross-platform", "platform-specific", "vendor-neutral",
                "vendor-locked", "agnostic", "dependent">>],
      [key |-> "maintainability",
       value |->
           <<"maintainable", "unmaintainable", "modular", "monolithic", "clean",
                "messy", "readable", "unreadable", "organized", "disorganized",
                "structured", "chaotic", "documented", "undocumented", "testable",
                "untestable", "debuggable", "opaque">>]>>

RECURSIVE TermCategoryFrom(_, _)
\* the first category, from row k on, whose list holds the term; "quality" when none does
TermCategoryFrom(term, k) ==
    IF k > Len(subjective_category_mapping) THEN "quality"
    ELSE IF InList(term, subjective_category_mapping[k].value)
         THEN subjective_category_mapping[k].key
    ELSE TermCategoryFrom(term, k + 1)

TermCategory(term) == TermCategoryFrom(term, 1)

\* _get_subjective_term_weight(issue, category_weights): called for every issue type
\* whose entry of AMBIGUITY_WEIGHTS is a dict, so for Weak modality too
SubjectiveTermWeight(issue) ==
    IF issue.type # "Subjective term" THEN 8
    ELSE SubjectiveCategoryWeight(TermCategory(Lower(issue.text)))

\* the weight one issue adds to base_score in _calculate_component_score
IssueWeight(issue) ==
    CASE issue.type \in {"Subjective term", "Weak modality"} -> SubjectiveTermWeight(issue)
      [] issue.type = "Undefined reference" -> 9
      [] issue.type = "Non-testable statement" -> 15
      [] OTHER -> 0

RECURSIVE SumWeights(_)
SumWeights(issues) ==
    IF issues = <<>> THEN 0
    ELSE IssueWeight(Head(issues)) + SumWeights(Tail(issues))

\* text_length = len(text.split()) if text else 50
TextLength(t) == IF t = <<>> THEN 50 ELSE WordCount(t)

DensityCoefficient(component_type) ==
    CASE component_type = "lexical" -> 60
      [] component_type = "testability" -> 80
      [] OTHER -> 70

DensityCap(component_type) ==
    CASE component_type = "lexical" -> 30
      [] component_type = "testability" -> 40
      [] OTHER -> 35

\* the denominator every component score of one text is carried over
ScoreDen(t) == 10 * Max(TextLength(t), 5)

\* _calculate_component_score: the numerator of the score over ScoreDen(t)
CalculateComponentScore(component_issues, t, component_type) ==
    IF component_issues = <<>> THEN 0
    ELSE LET L == Max(TextLength(t), 5)
             base_score == SumWeights(component_issues)
             \* density_score * L = min(cap, len/L * coefficient) * L
             density == Min(DensityCap(component_type) * L,
                            Len(component_issues) * DensityCoefficient(component_type))
             raw == base_score * L + density          \* raw_score * L
         IN  IF raw > 80 * L
             THEN 800 * L + 3 * (raw - 80 * L)        \* 80 + (raw_score - 80) * 0.3
             ELSE Min(1000 * L, 10 * raw)             \* min(100.0, raw_score)

IssueTypes(issues) == {issues[i].type : i \in 1..Len(issues)}

\* a confidence that counts the issues where the code counts their distinct kinds
CalculateConfidenceByCount(t, issues) ==
    LET text_length == WordCount(t)
        issue_count == Len(issues)
    IN  IF text_length >= 10 /\ issue_count >= 2 /\ 2 * issue_count <= Max(text_length, 1)
        THEN "HIGH"
        ELSE IF text_length >= 5 /\ issue_count > 0 THEN "MEDIUM"
        ELSE "LOW"

\* _calculate_confidence(text, issues)
CalculateConfidence(t, issues) ==
    LET text_length == WordCount(t)
        issue_count == Len(issues)
        issue_types == Cardinality(IssueTypes(issues))
    IN  IF /\ text_length >= 10
           /\ issue_types >= 2
           /\ 2 * issue_count <= Max(text_length, 1)   \* issue_count / max(..) <= 0.5
        THEN "HIGH"
        ELSE IF text_length >= 5 /\ issue_count > 0 THEN "MEDIUM"
        ELSE "LOW"

LexicalIssues(issues) ==
    SelectSeq(issues, LAMBDA i : i.type \in {"Subjective term", "Weak modality"})

\* a testability partition that leaves the weak-modality issues to the lexical one
TestabilityIssuesWithoutModality(issues) ==
    SelectSeq(issues, LAMBDA i : i.type = "Non-testable statement")

TestabilityIssues(issues) ==
    SelectSeq(issues, LAMBDA i : i.type \in {"Non-testable statement", "Weak modality"})

ReferenceIssues(issues) ==
    SelectSeq(issues, LAMBDA i : i.type = "Undefined reference")

\* the dict calculate_ambiguity_score returns when the issue list is empty
EmptyAmbiguityAnalysis ==
    [score |-> 0, confidence |-> "HIGH",
     components |-> [lexical |-> 0, testability |-> 0, references |-> 0]]

\* calculate_ambiguity_score(issues, text): scores in tenths
CalculateAmbiguityScore(issues, t) ==
    IF issues = <<>> THEN EmptyAmbiguityAnalysis
    ELSE LET lexical_score == CalculateComponentScore(LexicalIssues(issues), t, "lexical")
             testability_score ==
                 CalculateComponentScore(TestabilityIssues(issues), t, "testability")
             reference_score ==
                 CalculateComponentScore(ReferenceIssues(issues), t, "references")
             \* lexical * 0.3 + testability * 0.5 + references * 0.2, over 10 * ScoreDen
             overall_score == 3 * lexical_score + 5 * testability_score + 2 * reference_score
         IN  [score |-> Round1(overall_score, 10 * ScoreDen(t)),
              confidence |-> CalculateConfidence(t, issues),
              components |->
                  [lexical |-> Round1(lexical_score, ScoreDen(t)),
                   testability |-> Round1(testability_score, ScoreDen(t)),
                   references |-> Round1(reference_score, ScoreDen(t))]]

-----------------------------------------------------------------------------
(* Assumption detector: tables. *)

\* a lookup that knows no default: a key the table lacks gives the empty str
GetWithoutDefault(table, key, default) ==
    IF \E k \in 1..Len(table) : table[k].key = key
    THEN table[CHOOSE k \in 1..Len(table) : table[k].key = key].value
    ELSE ""

\* dict.get(key, default) on a table of [key, value] rows
Get(table, key, default) ==
    IF \E k \in 1..Len(table) : table[k].key = key
    THEN table[CHOOSE k \in 1..Len(table) : table[k].key = key].value
    ELSE default

\* ASSUMPTION_WEIGHTS["Environment"]
ASSUMPTION_WEIGHTS_Environment ==
    <<[key |-> "UI interaction", value |-> 14], [key |-> "browsers", value |-> 12],
      [key |-> "devices", value |-> 12], [key |-> "operating_systems", value |-> 11],
      [key |-> "network", value |-> 10], [key |-> "display", value |-> 9],
      [key |-> "databases", value |-> 15], [key |-> "apis", value |-> 12],
      [key |-> "cloud_providers", value |-> 11]>>

\* ASSUMPTION_WEIGHTS["Data"]
ASSUMPTION_WEIGHTS_Data ==
    <<[key |-> "user_exists", value |-> 10], [key |-> "credentials_exist", value |-> 11],
      [key |-> "form_filled", value |-> 8], [key |-> "data_entered", value |-> 9],
      [key |-> "record_exists", value |-> 9], [key |-> "data_exists", value |-> 8],
      [key |-> "file_exists", value |-> 9], [key |-> "recipient_exists", value |-> 8],
      [key |-> "sender_exists", value |-> 8], [key |-> "task_exists", value |-> 8],
      [key |-> "item_exists", value |-> 7], [key |-> "issue_exists", value |-> 8]>>

\* ASSUMPTION_WEIGHTS["State"]
ASSUMPTION_WEIGHTS_State ==
    <<[key |-> "user_logged_in", value |-> 13], [key |-> "permissions_granted", value |-> 14],
      [key |-> "condition_exists", value |-> 9], [key |-> "error_trigger", value |-> 10],
      [key |-> "failure_condition", value |-> 9], [key |-> "admin_role", value |-> 11],
      [key |-> "manager_role", value |-> 10], [key |-> "user_role", value |-> 10],
      [key |-> "account_active", value |-> 12], [key |-> "form_valid", value |-> 8],
      [key |-> "space_available", value |-> 8]>>

\* self.action_patterns, in insertion order
action_patterns ==
    <<[key |-> "login", value |-> <<"user_exists", "credentials_exist">>],
      [key |-> "log in", value |-> <<"user_exists", "credentials_exist">>],
      [key |-> "sign in", value |-> <<"user_exists", "credentials_exist">>],
      [key |-> "authenticate", value |-> <<"user_exists", "credentials_exist">>],
      [key |-> "logout", value |-> <<"user_logged_in">>],
      [key |-> "log out", value |-> <<"user_logged_in">>],
      [key |-> "sign out", value |-> <<"user_logged_in">>],
      [key |-> "navigate", value |-> <<"user_logged_in">>],
      [key |-> "access", value |-> <<"user_logged_in", "permissions_granted">>],
      [key |-> "view", value |-> <<"user_logged_in", "permissions_granted">>],
      [key |-> "see", value |-> <<"user_logged_in", "permissions_granted">>],
      [key |-> "visit", value |-> <<"user_logged_in">>],
      [key |-> "go to", value |-> <<"user_logged_in">>],
      [key |-> "open", value |-> <<"user_logged_in">>],
      [key |-> "enter", value |-> <<"user_logged_in">>],
      [key |-> "browse", value |-> <<"user_logged_in">>],
      [key |-> "submit", value |-> <<"form_filled", "user_logged_in">>],
      [key |-> "save", value |-> <<"data_entered", "user_logged_in">>],
      [key |-> "update", value |-> <<"record_exists", "user_logged_in", "permissions_granted">>],
      [key |-> "delete", value |-> <<"record_exists", "user_logged_in", "permissions_granted">>],
      [key |-> "edit", value |-> <<"record_exists", "user_logged_in", "permissions_granted">>],
      [key |-> "modify", value |-> <<"record_exists", "user_logged_in", "permissions_granted">>],
      [key |-> "create", value |-> <<"user_logged_in", "permissions_granted">>],
      [key |-> "add", value |-> <<"user_logged_in", "permissions_granted">>],
      [key |-> "insert", value |-> <<"user_logged_in", "permissions_granted">>],
      [key |-> "search", value |-> <<"user_logged_in">>],
      [key |-> "filter", value |-> <<"user_logged_in">>],
      [key |-> "sort", value |-> <<"user_logged_in">>],
      [key |-> "find", value |-> <<"user_logged_in">>],
      [key |-> "query", value |-> <<"user_logged_in">>],
      [key |-> "lookup", value |-> <<"user_logged_in">>],
      [key |-> "verify", value |-> <<"condition_exists", "user_logged_in">>],
      [key |-> "check", value |-> <<"condition_exists", "user_logged_in">>],
      [key |-> "validate", value |-> <<"data_exists", "user_logged_in">>],
      [key |-> "confirm", value |-> <<"condition_exists", "user_logged_in">>],
      [key |-> "ensure", value |-> <<"condition_exists", "user_logged_in">>],
      [key |-> "assert", value |-> <<"condition_exists", "user_logged_in">>],
      [key |-> "test", value |-> <<"condition_exists", "user_logged_in">>],
      [key |-> "upload", value |-> <<"file_exists", "user_logged_in">>],
      [key |-> "download", value |-> <<"file_exists", "user_logged_in", "permissions_granted">>],
      [key |-> "export", value |-> <<"data_exists", "user_logged_in">>],
      [key |-> "import", value |-> <<"file_exists", "user_logged_in", "permissions_granted">>],
      [key |-> "attach", value |-> <<"file_exists", "user_logged_in">>],
      [key |-> "share", value |-> <<"file_exists", "user_logged_in", "permissions_granted">>],
      [key |-> "send", value |-> <<"recipient_exists", "user_logged_in">>],
      [key |-> "receive", value |-> <<"sender_exists">>],
      [key |-> "message", value |-> <<"communication_setup">>],
      [key |-> "email", value |-> <<"recipient_exists", "user_logged_in">>],
      [key |-> "notify", value |-> <<"recipient_exists", "user_logged_in">>],
      [key |-> "contact", value |-> <<"recipient_exists", "user_logged_in">>],
      [key |-> "communicate", value |-> <<"communication_setup">>],
      [key |-> "admin", value |-> <<"admin_role", "user_logged_in">>],
      [key |-> "manager", value |-> <<"manager_role", "user_logged_in">>],
      [key |-> "administrator", value |-> <<"admin_role", "user_logged_in">>],
      [key |-> "supervisor", value |-> <<"manager_role", "user_logged_in">>],
      [key |-> "error", value |-> <<"error_trigger">>],
      [key |-> "fail", value |-> <<"failure_condition">>],
      [key |-> "crash", value |-> <<"error_trigger">>],
      [key |-> "break", value |-> <<"error_trigger">>],
      [key |-> "handle", value |-> <<"error_trigger">>],
      [key |-> "recover", value |-> <<"failure_condition">>],
      [key |-> "configure", value |-> <<"admin_role", "user_logged_in">>],
      [key |-> "setup", value |-> <<"admin_role", "user_logged_in">>],
      [key |-> "customize", value |-> <<"user_logged_in">>],
      [key |-> "personalize", value |-> <<"user_logged_in">>],
      [key |-> "settings", value |-> <<"user_logged_in">>],
      [key |-> "preferences", value |-> <<"user_logged_in">>],
      [key |-> "report", value |-> <<"data_exists", "user_logged_in", "permissions_granted">>],
      [key |-> "analytics", value |-> <<"data_exists", "user_logged_in", "permissions_granted">>],
      [key |-> "dashboard", value |-> <<"user_logged_in">>],
      [key |-> "metrics", value |-> <<"data_exists", "user_logged_in", "permissions_granted">>],
      [key |-> "statistics", value |-> <<"data_exists", "user_logged_in", "permissions_granted">>],
      [key |-> "integrate", value |-> <<"external_service_exists">>],
      [key |-> "connect", value |-> <<"external_service_exists">>],
      [key |-> "sync", value |-> <<"external_service_exists">>],
      [key |-> "api", value |-> <<"api_access_configured">>],
      [key |-> "webhook", value |-> <<"webhook_configured">>],
      [key |-> "callback", value |-> <<"callback_configured">>]>>

\* self.assumption_descriptions
assumption_descriptions ==
    <<[key |-> "user_exists", value |-> "Valid test user exists in the system"],
      [key |-> "credentials_exist", value |-> "User credentials are available and valid"],
      [key |-> "user_logged_in", value |-> "User is already authenticated/logged in"],
      [key |-> "permissions_granted", value |-> "User has necessary permissions for the action"],
      [key |-> "form_filled", value |-> "Form is already filled with valid data"],
      [key |-> "data_entered", value |-> "Required data has been entered"],
      [key |-> "record_exists", value |-> "Target record exists in the system"],
      [key |-> "condition_exists", value |-> "Condition to verify is present"],
      [key |-> "data_exists", value |-> "Required data exists for validation"],
      [key |-> "error_trigger", value |-> "Error condition can be triggered"],
      [key |-> "failure_condition", value |-> "Failure scenario can be reproduced"],
      [key |-> "admin_role", value |-> "Admin user role is available"],
      [key |-> "manager_role", value |-> "Manager user role is available"],
      [key |-> "user_role", value |-> "Regular user role is available"],
      [key |-> "file_exists", value |-> "Required file exists for the operation"],
      [key |-> "recipient_exists", value |-> "Message recipient exists"],
      [key |-> "sender_exists", value |-> "Message sender exists"],
      [key |-> "communication_setup", value |-> "Communication channel is configured"],
      [key |-> "external_service_exists", value |-> "External service or API is available and accessible"],
      [key |-> "api_access_configured", value |-> "API access credentials and endpoints are configured"],
      [key |-> "webhook_configured", value |-> "Webhook endpoints are set up and accessible"],
      [key |-> "callback_configured", value |-> "Callback mechanisms are properly configured"]>>

\* self.environment_indicators (a set: membership only)
environment_indicators ==
    <<"android", "browser", "chrome", "desktop", "device", "edge", "firefox", "ios", "linux",
      "mac", "mobile", "network", "safari", "tablet", "windows">>

\* explicit_indicators of _is_assumption_explicit
explicit_indicators ==
    <<[key |-> "user_exists", value |-> <<"user exists", "test user", "valid user">>],
      [key |-> "credentials_exist", value |-> <<"credentials", "password", "login details">>],
      [key |-> "user_logged_in", value |-> <<"logged in", "authenticated", "signed in">>],
      [key |-> "permissions_granted", value |-> <<"permission", "authorized", "access granted">>],
      [key |-> "form_filled", value |-> <<"filled", "entered", "completed">>],
      [key |-> "data_entered", value |-> <<"entered", "provided", "input">>],
      [key |-> "record_exists", value |-> <<"exists", "available", "present">>],
      [key |-> "condition_exists", value |-> <<"condition", "scenario", "case">>],
      [key |-> "data_exists", value |-> <<"data exists", "available data">>],
      [key |-> "error_trigger", value |-> <<"error occurs", "error condition">>],
      [key |-> "failure_condition", value |-> <<"failure", "error case">>]>>

\* category_mapping of _get_assumption_category
category_mapping ==
    <<[key |-> "user_exists", value |-> "Data"],
      [key |-> "credentials_exist", value |-> "Data"],
      [key |-> "user_logged_in", value |-> "State"],
      [key |-> "permissions_granted", value |-> "State"],
      [key |-> "form_filled", value |-> "Data"], [key |-> "data_entered", value |-> "Data"],
      [key |-> "record_exists", value |-> "Data"],
      [key |-> "condition_exists", value |-> "State"],
      [key |-> "data_exists", value |-> "Data"], [key |-> "error_trigger", value |-> "State"],
      [key |-> "failure_condition", value |-> "State"],
      [key |-> "admin_role", value |-> "State"], [key |-> "manager_role", value |-> "State"],
      [key |-> "user_role", value |-> "State"], [key |-> "file_exists", value |-> "Data"],
      [key |-> "recipient_exists", value |-> "Data"],
      [key |-> "sender_exists", value |-> "Data"],
      [key |-> "communication_setup", value |-> "Environment"],
      [key |-> "external_service_exists", value |-> "Environment"],
      [key |-> "api_access_configured", value |-> "Environment"],
      [key |-> "webhook_configured", value |-> "Environment"],
      [key |-> "callback_configured", value |-> "Environment"]>>

\* key_mappings of _get_assumption_type_weight, in insertion order
key_mappings ==
    <<[key |-> "user exists", value |-> "user_exists"],
      [key |-> "credentials exist", value |-> "credentials_exist"],
      [key |-> "user logged in", value |-> "user_logged_in"],
      [key |-> "permissions granted", value |-> "permissions_granted"],
      [key |-> "form filled", value |-> "form_filled"],
      [key |-> "data entered", value |-> "data_entered"],
      [key |-> "record exists", value |-> "record_exists"],
      [key |-> "data exists", value |-> "data_exists"],
      [key |-> "condition exists", value |-> "condition_exists"],
      [key |-> "file exists", value |-> "file_exists"],
      [key |-> "recipient exists", value |-> "recipient_exists"],
      [key |-> "sender exists", value |-> "sender_exists"],
      [key |-> "task exists", value |-> "task_exists"],
      [key |-> "item exists", value |-> "item_exists"],
      [key |-> "issue exists", value |-> "issue_exists"],
      [key |-> "error trigger", value |-> "error_trigger"],
      [key |-> "failure condition", value |-> "failure_condition"],
      [key |-> "admin role", value |-> "admin_role"],
      [key |-> "manager role", value |-> "manager_role"],
      [key |-> "user role", value |-> "user_role"],
      [key |-> "account active", value |-> "account_active"],
      [key |-> "form valid", value |-> "form_valid"],
      [key |-> "space available", value |-> "space_available"]>>

\* strong_patterns of _classify_assumption_strength
strong_patterns ==
    <<
      [key |-> "Environment", value |-> <<"browser", "device", "operating system", "database", "api", "network", "server", "infrastructure", "platform", "environment">>],
      [key |-> "State", value |-> <<"user logged in", "authenticated", "authorized", "permissions granted", "admin role", "session active", "account active", "system configured">>],
      [key |-> "Data", value |-> <<"user exists", "credentials exist", "test data prepared", "database populated", "external service available", "api endpoint configured">>]>>

\* weak_patterns of _classify_assumption_strength
weak_patterns ==
    <<
      [key |-> "Environment", value |-> <<"internet connection", "power available", "display resolution">>],
      [key |-> "State", value |-> <<"user preferences set", "notifications enabled", "theme selected">>],
      [key |-> "Data", value |-> <<"sample data", "demo content", "placeholder text", "optional fields">>]>>

-----------------------------------------------------------------------------
(* Assumption detector: AssumptionDetector.detect_assumptions. *)

\* a category lookup that knows only the keys that have indicator phrases
GetAssumptionCategoryOfIndicators(assumption_key) ==
    IF \E i \in 1..Len(explicit_indicators) : explicit_indicators[i].key = assumption_key
    THEN Get(category_mapping, assumption_key, "Unknown")
    ELSE "Unknown"

\* _get_assumption_category(assumption_key)
GetAssumptionCategory(assumption_key) == Get(category_mapping, assumption_key, "Unknown")

\* an explicitness check that finds no assumption stated
IsAssumptionExplicitNever(text_lower, assumption_key) == FALSE

\* _is_assumption_explicit(text, assumption_key)
IsAssumptionExplicit(text_lower, assumption_key) ==
    ContainsAny(text_lower, Get(explicit_indicators, assumption_key, <<>>))

\* the AssumptionIssue _detect_action_assumptions appends for (action, assumption_key)
ActionIssue(action, assumption_key) ==
    [type |-> "Action assumption",
     category |-> GetAssumptionCategory(assumption_key),
     text |-> action,
     message |-> "Action '" \o action \o "' implies assumption",
     assumption |-> Get(assumption_descriptions, assumption_key, assumption_key)]

\* the AssumptionIssue of _detect_environment_assumptions
EnvironmentIssue ==
    [type |-> "Environment assumption",
     category |-> "Environment",
     text |-> "UI interaction",
     message |-> "UI interaction without environment specification",
     assumption |-> "Browser, device, or platform is specified"]

\* the two AssumptionIssues of _detect_context_assumptions
UserContextIssue ==
    [type |-> "Context assumption",
     category |-> "State",
     text |-> "User-specific action",
     message |-> "User-specific action without user context",
     assumption |-> "User is logged in and authenticated"]

DataContextIssue ==
    [type |-> "Context assumption",
     category |-> "Data",
     text |-> "Data operation",
     message |-> "Data operation without data context",
     assumption |-> "Required data exists in the system"]

RECURSIVE IssuesOfAction(_, _, _)
\* the inner loop of _detect_action_assumptions over one action's assumption keys
IssuesOfAction(text_lower, action, keys) ==
    IF keys = <<>> THEN <<>>
    ELSE (IF IsAssumptionExplicit(text_lower, Head(keys)) THEN <<>>
          ELSE <<ActionIssue(action, Head(keys))>>)
         \o IssuesOfAction(text_lower, action, Tail(keys))

RECURSIVE ActionIssuesFrom(_, _)
\* the outer loop of _detect_action_assumptions, from row k of action_patterns
ActionIssuesFrom(text_lower, k) ==
    IF k > Len(action_patterns) THEN <<>>
    ELSE (IF Contains(text_lower, action_patterns[k].key)
          THEN IssuesOfAction(text_lower, action_patterns[k].key, action_patterns[k].value)
          ELSE <<>>)
         \o ActionIssuesFrom(text_lower, k + 1)

\* _detect_action_assumptions(doc, original_text)
DetectActionAssumptions(s) == ActionIssuesFrom(Lower(s), 1)

\* _detect_environment_assumptions(text)
DetectEnvironmentAssumptions(s) ==
    LET text_lower == Lower(s)
        has_ui_action ==
            ContainsAny(text_lower, <<"click", "type", "select", "scroll", "hover", "tap">>)
        has_environment == ContainsAny(text_lower, environment_indicators)
    IN  IF has_ui_action /\ ~has_environment THEN <<EnvironmentIssue>> ELSE <<>>

\* _has_user_context(text)
HasUserContext(text_lower) ==
    ContainsAny(text_lower, <<"user", "login", "authenticate", "sign in", "logged in",
                              "account", "profile", "session">>)

\* _has_data_context(text)
HasDataContext(text_lower) ==
    ContainsAny(text_lower, <<"data", "record", "entry", "information", "content",
                              "database", "exists", "available", "present">>)

\* _detect_context_assumptions(text)
DetectContextAssumptions(s) ==
    LET text_lower == Lower(s)
    IN  (IF /\ ContainsAny(text_lower, <<"profile", "settings", "account", "dashboard">>)
            /\ ~HasUserContext(text_lower)
         THEN <<UserContextIssue>> ELSE <<>>)
        \o
        (IF /\ ContainsAny(text_lower, <<"search", "filter", "sort", "export">>)
            /\ ~HasDataContext(text_lower)
         THEN <<DataContextIssue>> ELSE <<>>)

\* detect_assumptions(text), text given as a str
DetectAssumptions(s) ==
    DetectActionAssumptions(s) \o DetectEnvironmentAssumptions(s)
                               \o DetectContextAssumptions(s)

-----------------------------------------------------------------------------
(* Assumption scoring: AssumptionDetector.calculate_assumption_score. *)

\* text_length of _calculate_component_with_strength
AssumptionTextLength == 50

RECURSIVE FirstKeyMappingFrom(_, _)
\* the first row of key_mappings, from row k on, whose phrase occurs in s; 0 when none
FirstKeyMappingFrom(s, k) ==
    IF k > Len(key_mappings) THEN 0
    ELSE IF Contains(s, key_mappings[k].key) THEN k
    ELSE FirstKeyMappingFrom(s, k + 1)

FirstKeyMapping(s) == FirstKeyMappingFrom(s, 1)

\* _get_assumption_type_weight(issue, type_weights)
GetAssumptionTypeWeight(issue, type_weights) ==
    LET assumption_key == Lower(issue.assumption)
        k == FirstKeyMapping(assumption_key)
    IN  IF k # 0 THEN Get(type_weights, key_mappings[k].value, 15)
        ELSE IF ContainsAny(assumption_key, <<"browser", "chrome", "firefox", "safari", "edge">>)
             THEN Get(type_weights, "browsers", 20)
        ELSE IF ContainsAny(assumption_key, <<"mobile", "desktop", "tablet", "phone">>)
             THEN Get(type_weights, "devices", 20)
        ELSE IF ContainsAny(assumption_key, <<"ios", "android", "windows", "mac", "linux">>)
             THEN Get(type_weights, "operating_systems", 18)
        ELSE IF ContainsAny(assumption_key, <<"network", "wifi", "cellular", "broadband">>)
             THEN Get(type_weights, "network", 16)
        ELSE IF ContainsAny(assumption_key, <<"database", "mysql", "postgresql", "mongodb">>)
             THEN Get(type_weights, "databases", 24)
        ELSE IF ContainsAny(assumption_key, <<"api", "endpoint", "rest", "graphql">>)
             THEN Get(type_weights, "apis", 20)
        ELSE 15

\* a classification that looks for the optional phrases before the critical ones
ClassifyAssumptionStrengthWeakFirst(issue, component_type) ==
    LET assumption_text == Lower(issue.assumption)
    IN  IF ContainsAny(assumption_text, Get(weak_patterns, component_type, <<>>))
        THEN "WEAK"
        ELSE IF ContainsAny(assumption_text, Get(strong_patterns, component_type, <<>>))
        THEN "STRONG"
        ELSE IF component_type \in {"Environment", "State"} THEN "STRONG"
        ELSE "WEAK"

\* _classify_assumption_strength(issue, component_type)
ClassifyAssumptionStrength(issue, component_type) ==
    LET assumption_text == Lower(issue.assumption)
    IN  IF ContainsAny(assumption_text, Get(strong_patterns, component_type, <<>>))
        THEN "STRONG"
        ELSE IF ContainsAny(assumption_text, Get(weak_patterns, component_type, <<>>))
        THEN "WEAK"
        ELSE IF component_type = "Environment" THEN "STRONG"
        ELSE IF component_type = "State" THEN "STRONG"
        ELSE "WEAK"

\* ASSUMPTION_WEIGHTS[component_type]
TypeWeights(component_type) ==
    CASE component_type = "Environment" -> ASSUMPTION_WEIGHTS_Environment
      [] component_type = "Data" -> ASSUMPTION_WEIGHTS_Data
      [] component_type = "State" -> ASSUMPTION_WEIGHTS_State

RECURSIVE SumAssumptionWeights(_, _)
SumAssumptionWeights(issues, component_type) ==
    IF issues = <<>> THEN 0
    ELSE GetAssumptionTypeWeight(Head(issues), TypeWeights(component_type))
         + SumAssumptionWeights(Tail(issues), component_type)

\* the denominator every assumption component score is carried over
AssumptionDen == 10 * Max(AssumptionTextLength, 5)

\* the same step without the min: the compressed score handed on as it is
ClampComponentOmitted(final_score) == final_score

\* final_score = min(100.0, final_score), on numerators over AssumptionDen
ClampComponent(final_score) == Min(100 * AssumptionDen, final_score)

\* has_strong_assumption / has_weak_assumption folded into the component's label
ComponentStrength(component_issues, component_type) ==
    IF \E k \in 1..Len(component_issues) :
           ClassifyAssumptionStrength(component_issues[k], component_type) = "STRONG"
    THEN "STRONG"
    ELSE IF \E k \in 1..Len(component_issues) :
                ClassifyAssumptionStrength(component_issues[k], component_type) # "STRONG"
    THEN "WEAK"
    ELSE "UNKNOWN"

\* _calculate_component_with_strength without its "if not component_issues" return: the
\* loop body never runs for an empty list and the label falls through to "UNKNOWN"
CalculateComponentWithoutEmptyReturn(component_issues, component_type) ==
    LET L == Max(AssumptionTextLength, 5)
        n == Len(component_issues)
        base_score == SumAssumptionWeights(component_issues, component_type)
                      + (IF n > 1 THEN (n - 1) * 5 ELSE 0)
        density ==
            IF component_type = "State" THEN Min(30 * L, n * 60)
            ELSE IF component_type = "Environment" THEN Min(25 * L, n * 50)
            ELSE Min(20 * L, n * 40)
        raw == base_score * L + density
        final_score == IF raw > 70 * L THEN 700 * L + 4 * (raw - 70 * L) ELSE 10 * raw
    IN  [score |-> ClampComponent(final_score),
         strength |-> ComponentStrength(component_issues, component_type)]

\* _calculate_component_with_strength with text_length taken from the words of the
\* text under analysis instead of the constant 50 (the density rounded down to a
\* numerator over AssumptionDen)
CalculateComponentByTextLength(component_issues, component_type) ==
    IF component_issues = <<>> THEN [score |-> 0, strength |-> "NONE"]
    ELSE LET L == Max(AssumptionTextLength, 5)
             text_length == Max(WordCount(text), 5)
             n == Len(component_issues)
             base_score == SumAssumptionWeights(component_issues, component_type)
                           + (IF n > 1 THEN (n - 1) * 5 ELSE 0)
             density ==
                 IF component_type = "State" THEN Min(30 * L, (n * 60 * L) \div text_length)
                 ELSE IF component_type = "Environment"
                 THEN Min(25 * L, (n * 50 * L) \div text_length)
                 ELSE Min(20 * L, (n * 40 * L) \div text_length)
             raw == base_score * L + density
             final_score ==
                 IF raw > 70 * L THEN 700 * L + 4 * (raw - 70 * L) ELSE 10 * raw
         IN  [score |-> ClampComponent(final_score),
              strength |-> ComponentStrength(component_issues, component_type)]

\* _calculate_component_with_strength: [score: numerator over AssumptionDen, strength]
CalculateComponentWithStrength(component_issues, component_type) ==
    IF component_issues = <<>> THEN [score |-> 0, strength |-> "NONE"]
    ELSE LET L == Max(AssumptionTextLength, 5)
             n == Len(component_issues)
             base_score == SumAssumptionWeights(component_issues, component_type)
                           + (IF n > 1 THEN (n - 1) * 5 ELSE 0)
             \* density_score * L
             density ==
                 IF component_type = "State" THEN Min(30 * L, n * 60)
                 ELSE IF component_type = "Environment" THEN Min(25 * L, n * 50)
                 ELSE Min(20 * L, n * 40)
             raw == base_score * L + density              \* raw_score * L
             final_score ==
                 IF raw > 70 * L
                 THEN 700 * L + 4 * (raw - 70 * L)        \* 70 + (raw_score - 70) * 0.4
                 ELSE 10 * raw
         IN  [score |-> ClampComponent(final_score),
              strength |-> ComponentStrength(component_issues, component_type)]

IssuesOfCategory(issues, category) ==
    SelectSeq(issues, LAMBDA i : i.category = category)

\* the dict calculate_assumption_score returns when the issue list is empty
EmptyAssumptionAnalysis ==
    [score |-> 0,
     components |-> [environment |-> [count |-> 0, strength |-> "NONE"],
                     data |-> [count |-> 0, strength |-> "NONE"],
                     state |-> [count |-> 0, strength |-> "NONE"]]]

\* the three calls of _calculate_component_with_strength in calculate_assumption_score
AssumptionComponents(issues) ==
    [environment |->
         CalculateComponentWithStrength(IssuesOfCategory(issues, "Environment"), "Environment"),
     data |-> CalculateComponentWithStrength(IssuesOfCategory(issues, "Data"), "Data"),
     state |-> CalculateComponentWithStrength(IssuesOfCategory(issues, "State"), "State")]

\* the dict calculate_assumption_score builds from the three components
AssumptionResult(issues, c) ==
    \* environment * 0.35 + data * 0.25 + state * 0.4, over 100 * AssumptionDen
    LET overall_score == 35 * c.environment.score + 25 * c.data.score + 40 * c.state.score
    IN  [score |-> Round1(overall_score, 100 * AssumptionDen),
         components |->
             [environment |-> [count |-> Len(IssuesOfCategory(issues, "Environment")),
                               strength |-> c.environment.strength],
              data |-> [count |-> Len(IssuesOfCategory(issues, "Data")),
                        strength |-> c.data.strength],
              state |-> [count |-> Len(IssuesOfCategory(issues, "State")),
                         strength |-> c.state.strength]]]

\* calculate_assumption_score(issues, text): score in tenths
CalculateAssumptionScore(issues, t) ==
    IF issues = <<>> THEN EmptyAssumptionAnalysis
    ELSE AssumptionResult(issues, AssumptionComponents(issues))

-----------------------------------------------------------------------------
(* Readiness: RequirementScorer.calculate_readiness_score and                *)
(* classify_readiness.  A score argument is a number of tenths; the two      *)
(* powers are read from tables of floor(10^4 * x ** e), impacts are carried  *)
(* in units of 10^-6 and the returned readiness as an exact fraction of      *)
(* tenths over the impact it was divided by.                                 *)

\* floor(10^4 * (i/10) ** 0.8) for i = 0, 1, ... tenths, up to the first value of 80 or more
Pow08Table ==
    << 0, 1584, 2759, 3816, 4804, 5743, 6645, 7517, 8365, 9191, 10000, 10792,
      11570, 12335, 13088, 13831, 14564, 15288, 16003, 16711, 17411, 18104, 18790, 19470,
      20145, 20813, 21477, 22135, 22789, 23437, 24082, 24722, 25358, 25990, 26618, 27242,
      27863, 28481, 29095, 29706, 30314, 30919, 31520, 32119, 32716, 33309, 33900, 34488,
      35074, 35657, 36238, 36817, 37394, 37968, 38540, 39110, 39678, 40243, 40807, 41369,
      41929, 42487, 43044, 43598, 44151, 44702, 45251, 45799, 46345, 46889, 47432, 47974,
      48513, 49052, 49589, 50124, 50658, 51190, 51722, 52251, 52780, 53307, 53833, 54357,
      54881, 55403, 55924, 56443, 56962, 57479, 57995, 58510, 59024, 59536, 60048, 60559,
      61068, 61576, 62084, 62590, 63095, 63599, 64103, 64605, 65106, 65607, 66106, 66605,
      67102, 67599, 68094, 68589, 69083, 69576, 70068, 70559, 71050, 71539, 72028, 72516,
      73003, 73490, 73975, 74460, 74944, 75427, 75909, 76391, 76871, 77352, 77831, 78309,
      78787, 79264, 79741, 80217, 80692, 81166, 81640, 82112, 82585, 83056, 83527, 83997,
      84467, 84936, 85404, 85872, 86339, 86805, 87271, 87736, 88201, 88665, 89128, 89591,
      90053, 90514, 90975, 91436, 91895, 92355, 92813, 93271, 93729, 94186, 94642, 95098,
      95553, 96008, 96462, 96916, 97369, 97822, 98274, 98725, 99176, 99627, 100077, 100526,
      100975, 101424, 101872, 102320, 102767, 103213, 103659, 104105, 104550, 104995, 105439, 105883,
      106326, 106769, 107211, 107653, 108094, 108535, 108976, 109416, 109856, 110295, 110734, 111172,
      111610, 112047, 112484, 112921, 113357, 113793, 114228, 114663, 115098, 115532, 115966, 116399,
      116832, 117264, 117696, 118128, 118559, 118990, 119421, 119851, 120281, 120710, 121139, 121568,
      121996, 122424, 122852, 123279, 123705, 124132, 124558, 124983, 125409, 125834, 126258, 126682,
      127106, 127530, 127953, 128376, 128798, 129220, 129642, 130064, 130485, 130905, 131326, 131746,
      132166, 132585, 133004, 133423, 133841, 134259, 134677, 135095, 135512, 135929, 136345, 136761,
      137177, 137593, 138008, 138423, 138837, 139252, 139666, 140079, 140493, 140906, 141318, 141731,
      142143, 142555, 142967, 143378, 143789, 144199, 144610, 145020, 145430, 145839, 146248, 146657,
      147066, 147474, 147883, 148290, 148698, 149105, 149512, 149919, 150325, 150731, 151137, 151543,
      151948, 152353, 152758, 153163, 153567, 153971, 154375, 154778, 155181, 155584, 155987, 156389,
      156791, 157193, 157595, 157996, 158397, 158798, 159199, 159599, 160000, 160399, 160799, 161198,
      161598, 161996, 162395, 162793, 163192, 163589, 163987, 164385, 164782, 165179, 165575, 165972,
      166368, 166764, 167160, 167555, 167951, 168346, 168741, 169135, 169530, 169924, 170318, 170711,
      171105, 171498, 171891, 172284, 172676, 173069, 173461, 173853, 174244, 174636, 175027, 175418,
      175809, 176199, 176590, 176980, 177370, 177760, 178149, 178538, 178927, 179316, 179705, 180093,
      180482, 180870, 181258, 181645, 182033, 182420, 182807, 183194, 183580, 183967, 184353, 184739,
      185124, 185510, 185895, 186281, 186666, 187050, 187435, 187819, 188204, 188587, 188971, 189355,
      189738, 190122, 190505, 190887, 191270, 191652, 192035, 192417, 192799, 193180, 193562, 193943,
      194324, 194705, 195086, 195467, 195847, 196227, 196607, 196987, 197367, 197746, 198125, 198504,
      198883, 199262, 199641, 200019, 200397, 200775, 201153, 201531, 201908, 202286, 202663, 203040,
      203416, 203793, 204169, 204546, 204922, 205298, 205673, 206049, 206424, 206800, 207175, 207550,
      207924, 208299, 208673, 209048, 209422, 209795, 210169, 210543, 210916, 211289, 211662, 212035,
      212408, 212781, 213153, 213525, 213897, 214269, 214641, 215013, 215384, 215755, 216126, 216497,
      216868, 217239, 217609, 217980, 218350, 218720, 219090, 219459, 219829, 220198, 220567, 220936,
      221305, 221674, 222043, 222411, 222780, 223148, 223516, 223884, 224251, 224619, 224986, 225353,
      225721, 226088, 226454, 226821, 227187, 227554, 227920, 228286, 228652, 229018, 229383, 229749,
      230114, 230479, 230844, 231209, 231574, 231939, 232303, 232668, 233032, 233396, 233760, 234123,
      234487, 234851, 235214, 235577, 235940, 236303, 236666, 237028, 237391, 237753, 238116, 238478,
      238840, 239201, 239563, 239925, 240286, 240647, 241008, 241369, 241730, 242091, 242452, 242812,
      243172, 243532, 243893, 244252, 244612, 244972, 245331, 245691, 246050, 246409, 246768, 247127,
      247486, 247844, 248203, 248561, 248920, 249278, 249636, 249993, 250351, 250709, 251066, 251423,
      251781, 252138, 252495, 252852, 253208, 253565, 253921, 254278, 254634, 254990, 255346, 255702,
      256057, 256413, 256768, 257124, 257479, 257834, 258189, 258544, 258898, 259253, 259608, 259962,
      260316, 260670, 261024, 261378, 261732, 262085, 262439, 262792, 263146, 263499, 263852, 264205,
      264558, 264910, 265263, 265615, 265968, 266320, 266672, 267024, 267376, 267728, 268079, 268431,
      268782, 269133, 269485, 269836, 270187, 270537, 270888, 271239, 271589, 271940, 272290, 272640,
      272990, 273340, 273690, 274040, 274389, 274739, 275088, 275437, 275786, 276135, 276484, 276833,
      277182, 277531, 277879, 278227, 278576, 278924, 279272, 279620, 279968, 280315, 280663, 281011,
      281358, 281705, 282052, 282400, 282747, 283093, 283440, 283787, 284133, 284480, 284826, 285172,
      285519, 285865, 286211, 286556, 286902, 287248, 287593, 287939, 288284, 288629, 288974, 289319,
      289664, 290009, 290354, 290698, 291043, 291387, 291731, 292075, 292420, 292764, 293107, 293451,
      293795, 294138, 294482, 294825, 295169, 295512, 295855, 296198, 296541, 296883, 297226, 297569,
      297911, 298253, 298596, 298938, 299280, 299622, 299964, 300306, 300647, 300989, 301330, 301672,
      302013, 302354, 302695, 303037, 303377, 303718, 304059, 304400, 304740, 305081, 305421, 305761,
      306101, 306441, 306781, 307121, 307461, 307801, 308140, 308480, 308819, 309159, 309498, 309837,
      310176, 310515, 310854, 311193, 311531, 311870, 312208, 312547, 312885, 313223, 313561, 313899,
      314237, 314575, 314913, 315251, 315588, 315926, 316263, 316600, 316937, 317275, 317612, 317949,
      318285, 318622, 318959, 319295, 319632, 319968, 320305, 320641, 320977, 321313, 321649, 321985,
      322321, 322656, 322992, 323328, 323663, 323998, 324334, 324669, 325004, 325339, 325674, 326009,
      326344, 326678, 327013, 327347, 327682, 328016, 328350, 328684, 329018, 329352, 329686, 330020,
      330354, 330688, 331021, 331355, 331688, 332021, 332355, 332688, 333021, 333354, 333687, 334019,
      334352, 334685, 335017, 335350, 335682, 336015, 336347, 336679, 337011, 337343, 337675, 338007,
      338339, 338670, 339002, 339333, 339665, 339996, 340327, 340659, 340990, 341321, 341652, 341982,
      342313, 342644, 342975, 343305, 343636, 343966, 344296, 344626, 344957, 345287, 345617, 345946,
      346276, 346606, 346936, 347265, 347595, 347924, 348254, 348583, 348912, 349241, 349570, 349899,
      350228, 350557, 350886, 351214, 351543, 351871, 352200, 352528, 352857, 353185, 353513, 353841,
      354169, 354497, 354825, 355152, 355480, 355808, 356135, 356463, 356790, 357117, 357444, 357772,
      358099, 358426, 358753, 359079, 359406, 359733, 360059, 360386, 360713, 361039, 361365, 361691,
      362018, 362344, 362670, 362996, 363322, 363647, 363973, 364299, 364624, 364950, 365275, 365601,
      365926, 366251, 366577, 366902, 367227, 367552, 367876, 368201, 368526, 368851, 369175, 369500,
      369824, 370149, 370473, 370797, 371121, 371445, 371769, 372093, 372417, 372741, 373065, 373388,
      373712, 374035, 374359, 374682, 375006, 375329, 375652, 375975, 376298, 376621, 376944, 377267,
      377590, 377912, 378235, 378558, 378880, 379202, 379525, 379847, 380169, 380491, 380814, 381136,
      381457, 381779, 382101, 382423, 382745, 383066, 383388, 383709, 384031, 384352, 384673, 384994,
      385315, 385637, 385958, 386278, 386599, 386920, 387241, 387561, 387882, 388203, 388523, 388843,
      389164, 389484, 389804, 390124, 390444, 390764, 391084, 391404, 391724, 392044, 392364, 392683,
      393003, 393322, 393642, 393961, 394280, 394599, 394919, 395238, 395557, 395876, 396195, 396513,
      396832, 397151, 397470, 397788, 398107, 398425, 398744, 399062, 399380, 399698, 400016, 400335,
      400653, 400970, 401288, 401606, 401924, 402242, 402559, 402877, 403194, 403512, 403829, 404146,
      404464, 404781, 405098, 405415, 405732, 406049, 406366, 406683, 407000, 407316, 407633, 407949,
      408266, 408582, 408899, 409215, 409531, 409848, 410164, 410480, 410796, 411112, 411428, 411744,
      412059, 412375, 412691, 413006, 413322, 413637, 413953, 414268, 414584, 414899, 415214, 415529,
      415844, 416159, 416474, 416789, 417104, 417419, 417733, 418048, 418363, 418677, 418992, 419306,
      419620, 419935, 420249, 420563, 420877, 421191, 421505, 421819, 422133, 422447, 422761, 423074,
      423388, 423702, 424015, 424329, 424642, 424955, 425269, 425582, 425895, 426208, 426521, 426834,
      427147, 427460, 427773, 428086, 428398, 428711, 429024, 429336, 429649, 429961, 430274, 430586,
      430898, 431210, 431523, 431835, 432147, 432459, 432771, 433083, 433394, 433706, 434018, 434330,
      434641, 434953, 435264, 435576, 435887, 436198, 436510, 436821, 437132, 437443, 437754, 438065,
      438376, 438687, 438998, 439308, 439619, 439930, 440240, 440551, 440861, 441172, 441482, 441793,
      442103, 442413, 442723, 443033, 443343, 443653, 443963, 444273, 444583, 444893, 445203, 445512,
      445822, 446132, 446441, 446751, 447060, 447369, 447679, 447988, 448297, 448606, 448915, 449224,
      449533, 449842, 450151, 450460, 450769, 451077, 451386, 451695, 452003, 452312, 452620, 452929,
      453237, 453545, 453854, 454162, 454470, 454778, 455086, 455394, 455702, 456010, 456318, 456625,
      456933, 457241, 457548, 457856, 458164, 458471, 458778, 459086, 459393, 459700, 460008, 460315,
      460622, 460929, 461236, 461543, 461850, 462157, 462463, 462770, 463077, 463384, 463690, 463997,
      464303, 464610, 464916, 465222, 465529, 465835, 466141, 466447, 466753, 467059, 467365, 467671,
      467977, 468283, 468589, 468895, 469200, 469506, 469811, 470117, 470423, 470728, 471033, 471339,
      471644, 471949, 472254, 472560, 472865, 473170, 473475, 473780, 474085, 474389, 474694, 474999,
      475304, 475608, 475913, 476218, 476522, 476827, 477131, 477435, 477740, 478044, 478348, 478652,
      478956, 479260, 479565, 479868, 480172, 480476, 480780, 481084, 481388, 481691, 481995, 482299,
      482602, 482906, 483209, 483512, 483816, 484119, 484422, 484726, 485029, 485332, 485635, 485938,
      486241, 486544, 486847, 487150, 487452, 487755, 488058, 488361, 488663, 488966, 489268, 489571,
      489873, 490175, 490478, 490780, 491082, 491384, 491687, 491989, 492291, 492593, 492895, 493197,
      493498, 493800, 494102, 494404, 494705, 495007, 495309, 495610, 495912, 496213, 496514, 496816,
      497117, 497418, 497720, 498021, 498322, 498623, 498924, 499225, 499526, 499827, 500128, 500428,
      500729, 501030, 501331, 501631, 501932, 502232, 502533, 502833, 503134, 503434, 503734, 504035,
      504335, 504635, 504935, 505235, 505535, 505835, 506135, 506435, 506735, 507035, 507335, 507634,
      507934, 508234, 508533, 508833, 509132, 509432, 509731, 510031, 510330, 510629, 510929, 511228,
      511527, 511826, 512125, 512424, 512723, 513022, 513321, 513620, 513919, 514217, 514516, 514815,
      515113, 515412, 515711, 516009, 516308, 516606, 516904, 517203, 517501, 517799, 518097, 518396,
      518694, 518992, 519290, 519588, 519886, 520184, 520482, 520779, 521077, 521375, 521673, 521970,
      522268, 522565, 522863, 523160, 523458, 523755, 524053, 524350, 524647, 524944, 525242, 525539,
      525836, 526133, 526430, 526727, 527024, 527321, 527618, 527914, 528211, 528508, 528805, 529101,
      529398, 529694, 529991, 530287, 530584, 530880, 531177, 531473, 531769, 532065, 532362, 532658,
      532954, 533250, 533546, 533842, 534138, 534434, 534730, 535025, 535321, 535617, 535913, 536208,
      536504, 536799, 537095, 537391, 537686, 537981, 538277, 538572, 538867, 539163, 539458, 539753,
      540048, 540343, 540638, 540933, 541228, 541523, 541818, 542113, 542408, 542702, 542997, 543292,
      543587, 543881, 544176, 544470, 544765, 545059, 545354, 545648, 545942, 546237, 546531, 546825,
      547119, 547413, 547707, 548001, 548295, 548589, 548883, 549177, 549471, 549765, 550059, 550352,
      550646, 550940, 551233, 551527, 551821, 552114, 552408, 552701, 552994, 553288, 553581, 553874,
      554167, 554461, 554754, 555047, 555340, 555633, 555926, 556219, 556512, 556805, 557098, 557390,
      557683, 557976, 558269, 558561, 558854, 559146, 559439, 559732, 560024, 560316, 560609, 560901,
      561193, 561486, 561778, 562070, 562362, 562654, 562946, 563239, 563531, 563822, 564114, 564406,
      564698, 564990, 565282, 565574, 565865, 566157, 566448, 566740, 567032, 567323, 567615, 567906,
      568197, 568489, 568780, 569071, 569363, 569654, 569945, 570236, 570527, 570818, 571109, 571400,
      571691, 571982, 572273, 572564, 572855, 573146, 573436, 573727, 574018, 574308, 574599, 574889,
      575180, 575470, 575761, 576051, 576342, 576632, 576922, 577213, 577503, 577793, 578083, 578373,
      578663, 578953, 579243, 579533, 579823, 580113, 580403, 580693, 580983, 581272, 581562, 581852,
      582141, 582431, 582721, 583010, 583300, 583589, 583878, 584168, 584457, 584747, 585036, 585325,
      585614, 585903, 586193, 586482, 586771, 587060, 587349, 587638, 587927, 588216, 588504, 588793,
      589082, 589371, 589659, 589948, 590237, 590525, 590814, 591102, 591391, 591679, 591968, 592256,
      592545, 592833, 593121, 593410, 593698, 593986, 594274, 594562, 594850, 595138, 595426, 595714,
      596002, 596290, 596578, 596866, 597154, 597441, 597729, 598017, 598305, 598592, 598880, 599167,
      599455, 599742, 600030, 600317, 600605, 600892, 601179, 601467, 601754, 602041, 602328, 602615,
      602902, 603190, 603477, 603764, 604051, 604338, 604624, 604911, 605198, 605485, 605772, 606058,
      606345, 606632, 606918, 607205, 607492, 607778, 608065, 608351, 608638, 608924, 609210, 609497,
      609783, 610069, 610356, 610642, 610928, 611214, 611500, 611786, 612072, 612358, 612644, 612930,
      613216, 613502, 613788, 614073, 614359, 614645, 614931, 615216, 615502, 615788, 616073, 616359,
      616644, 616930, 617215, 617500, 617786, 618071, 618356, 618642, 618927, 619212, 619497, 619783,
      620068, 620353, 620638, 620923, 621208, 621493, 621778, 622062, 622347, 622632, 622917, 623202,
      623486, 623771, 624056, 624340, 624625, 624909, 625194, 625478, 625763, 626047, 626332, 626616,
      626900, 627185, 627469, 627753, 628037, 628322, 628606, 628890, 629174, 629458, 629742, 630026,
      630310, 630594, 630878, 631161, 631445, 631729, 632013, 632296, 632580, 632864, 633147, 633431,
      633715, 633998, 634282, 634565, 634848, 635132, 635415, 635699, 635982, 636265, 636548, 636832,
      637115, 637398, 637681, 637964, 638247, 638530, 638813, 639096, 639379, 639662, 639945, 640228,
      640510, 640793, 641076, 641359, 641641, 641924, 642207, 642489, 642772, 643054, 643337, 643619,
      643902, 644184, 644466, 644749, 645031, 645313, 645596, 645878, 646160, 646442, 646724, 647006,
      647288, 647570, 647852, 648134, 648416, 648698, 648980, 649262, 649544, 649826, 650107, 650389,
      650671, 650952, 651234, 651516, 651797, 652079, 652360, 652642, 652923, 653205, 653486, 653767,
      654049, 654330, 654611, 654892, 655174, 655455, 655736, 656017, 656298, 656579, 656860, 657141,
      657422, 657703, 657984, 658265, 658546, 658827, 659107, 659388, 659669, 659950, 660230, 660511,
      660791, 661072, 661353, 661633, 661914, 662194, 662474, 662755, 663035, 663316, 663596, 663876,
      664156, 664437, 664717, 664997, 665277, 665557, 665837, 666117, 666397, 666677, 666957, 667237,
      667517, 667797, 668077, 668357, 668636, 668916, 669196, 669476, 669755, 670035, 670314, 670594,
      670874, 671153, 671433, 671712, 671991, 672271, 672550, 672830, 673109, 673388, 673667, 673947,
      674226, 674505, 674784, 675063, 675342, 675621, 675900, 676179, 676458, 676737, 677016, 677295,
      677574, 677853, 678132, 678410, 678689, 678968, 679246, 679525, 679804, 680082, 680361, 680639,
      680918, 681196, 681475, 681753, 682032, 682310, 682588, 682867, 683145, 683423, 683701, 683980,
      684258, 684536, 684814, 685092, 685370, 685648, 685926, 686204, 686482, 686760, 687038, 687316,
      687594, 687871, 688149, 688427, 688705, 688982, 689260, 689538, 689815, 690093, 690370, 690648,
      690925, 691203, 691480, 691758, 692035, 692312, 692590, 692867, 693144, 693422, 693699, 693976,
      694253, 694530, 694807, 695084, 695362, 695639, 695916, 696193, 696469, 696746, 697023, 697300,
      697577, 697854, 698131, 698407, 698684, 698961, 699237, 699514, 699791, 700067, 700344, 700620,
      700897, 701173, 701450, 701726, 702002, 702279, 702555, 702832, 703108, 703384, 703660, 703936,
      704213, 704489, 704765, 705041, 705317, 705593, 705869, 706145, 706421, 706697, 706973, 707249,
      707525, 707800, 708076, 708352, 708628, 708904, 709179, 709455, 709731, 710006, 710282, 710557,
      710833, 711108, 711384, 711659, 711935, 712210, 712485, 712761, 713036, 713311, 713587, 713862,
      714137, 714412, 714687, 714963, 715238, 715513, 715788, 716063, 716338, 716613, 716888, 717163,
      717438, 717712, 717987, 718262, 718537, 718812, 719086, 719361, 719636, 719910, 720185, 720460,
      720734, 721009, 721283, 721558, 721832, 722107, 722381, 722656, 722930, 723204, 723479, 723753,
      724027, 724301, 724576, 724850, 725124, 725398, 725672, 725946, 726220, 726494, 726768, 727042,
      727316, 727590, 727864, 728138, 728412, 728686, 728959, 729233, 729507, 729781, 730054, 730328,
      730602, 730875, 731149, 731423, 731696, 731970, 732243, 732517, 732790, 733063, 733337, 733610,
      733884, 734157, 734430, 734703, 734977, 735250, 735523, 735796, 736069, 736342, 736616, 736889,
      737162, 737435, 737708, 737981, 738253, 738526, 738799, 739072, 739345, 739618, 739891, 740163,
      740436, 740709, 740981, 741254, 741527, 741799, 742072, 742344, 742617, 742890, 743162, 743434,
      743707, 743979, 744252, 744524, 744796, 745069, 745341, 745613, 745885, 746158, 746430, 746702,
      746974, 747246, 747518, 747790, 748062, 748334, 748606, 748878, 749150, 749422, 749694, 749966,
      750238, 750510, 750781, 751053, 751325, 751597, 751868, 752140, 752412, 752683, 752955, 753226,
      753498, 753769, 754041, 754312, 754584, 754855, 755127, 755398, 755669, 755941, 756212, 756483,
      756755, 757026, 757297, 757568, 757839, 758110, 758382, 758653, 758924, 759195, 759466, 759737,
      760008, 760279, 760550, 760820, 761091, 761362, 761633, 761904, 762175, 762445, 762716, 762987,
      763257, 763528, 763799, 764069, 764340, 764610, 764881, 765151, 765422, 765692, 765963, 766233,
      766504, 766774, 767044, 767315, 767585, 767855, 768125, 768396, 768666, 768936, 769206, 769476,
      769746, 770016, 770286, 770556, 770826, 771096, 771366, 771636, 771906, 772176, 772446, 772716,
      772986, 773255, 773525, 773795, 774065, 774334, 774604, 774874, 775143, 775413, 775682, 775952,
      776222, 776491, 776761, 777030, 777299, 777569, 777838, 778108, 778377, 778646, 778916, 779185,
      779454, 779723, 779993, 780262, 780531, 780800, 781069, 781338, 781607, 781876, 782145, 782414,
      782683, 782952, 783221, 783490, 783759, 784028, 784297, 784566, 784834, 785103, 785372, 785641,
      785909, 786178, 786447, 786715, 786984, 787252, 787521, 787790, 788058, 788327, 788595, 788863,
      789132, 789400, 789669, 789937, 790205, 790474, 790742, 791010, 791278, 791547, 791815, 792083,
      792351, 792619, 792887, 793155, 793424, 793692, 793960, 794228, 794496, 794764, 795031, 795299,
      795567, 795835, 796103, 796371, 796639, 796906, 797174, 797442, 797709, 797977, 798245, 798512,
      798780, 799048, 799315, 799583, 799850, 800118 >>

\* floor(10^4 * (i/10) ** 0.9) for i = 0, 1, ... tenths, up to the first value of 85 or more
Pow09Table ==
    << 0, 1258, 2349, 3383, 4383, 5358, 6314, 7254, 8180, 9095, 10000, 10895,
      11783, 12663, 13536, 14403, 15265, 16121, 16972, 17818, 18660, 19498, 20332, 21161,
      21988, 22811, 23630, 24447, 25260, 26071, 26878, 27683, 28486, 29286, 30083, 30878,
      31671, 32462, 33251, 34037, 34822, 35604, 36385, 37163, 37940, 38716, 39489, 40261,
      41031, 41800, 42566, 43332, 44096, 44858, 45619, 46379, 47137, 47894, 48650, 49404,
      50157, 50909, 51659, 52409, 53157, 53904, 54649, 55394, 56138, 56880, 57621, 58362,
      59101, 59839, 60577, 61313, 62048, 62782, 63516, 64248, 64980, 65710, 66440, 67169,
      67897, 68624, 69350, 70075, 70800, 71523, 72246, 72968, 73690, 74410, 75130, 75849,
      76567, 77284, 78001, 78717, 79432, 80147, 80861, 81574, 82286, 82998, 83709, 84420,
      85129, 85838, 86547, 87255, 87962, 88668, 89374, 90079, 90784, 91488, 92192, 92894,
      93597, 94298, 95000, 95700, 96400, 97099, 97798, 98497, 99194, 99892, 100588, 101284,
      101980, 102675, 103369, 104063, 104757, 105450, 106142, 106834, 107526, 108217, 108907, 109597,
      110287, 110976, 111665, 112353, 113040, 113728, 114414, 115101, 115786, 116472, 117157, 117841,
      118525, 119209, 119892, 120575, 121257, 121939, 122620, 123301, 123982, 124662, 125342, 126021,
      126700, 127379, 128057, 128734, 129412, 130089, 130765, 131442, 132117, 132793, 133468, 134142,
      134817, 135491, 136164, 136837, 137510, 138182, 138855, 139526, 140198, 140869, 141539, 142209,
      142879, 143549, 144218, 144887, 145556, 146224, 146892, 147559, 148226, 148893, 149560, 150226,
      150892, 151557, 152223, 152887, 153552, 154216, 154880, 155544, 156207, 156870, 157533, 158195,
      158857, 159519, 160180, 160842, 161502, 162163, 162823, 163483, 164143, 164802, 165461, 166120,
      166778, 167437, 168095, 168752, 169410, 170067, 170723, 171380, 172036, 172692, 173348, 174003,
      174658, 175313, 175968, 176622, 177276, 177930, 178583, 179236, 179889, 180542, 181194, 181847,
      182498, 183150, 183802, 184453, 185104, 185754, 186405, 187055, 187705, 188354, 189004, 189653,
      190302, 190950, 191599, 192247, 192895, 193542, 194190, 194837, 195484, 196131, 196777, 197423,
      198069, 198715, 199361, 200006, 200651, 201296, 201940, 202585, 203229, 203873, 204517, 205160,
      205803, 206446, 207089, 207732, 208374, 209016, 209658, 210300, 210941, 211583, 212224, 212864,
      213505, 214145, 214786, 215426, 216065, 216705, 217344, 217983, 218622, 219261, 219900, 220538,
      221176, 221814, 222452, 223089, 223726, 224364, 225000, 225637, 226274, 226910, 227546, 228182,
      228818, 229453, 230088, 230724, 231359, 231993, 232628, 233262, 233896, 234530, 235164, 235798,
      236431, 237064, 237697, 238330, 238963, 239595, 240227, 240860, 241491, 242123, 242755, 243386,
      244017, 244648, 245279, 245910, 246540, 247170, 247800, 248430, 249060, 249690, 250319, 250948,
      251577, 252206, 252835, 253463, 254092, 254720, 255348, 255976, 256603, 257231, 257858, 258485,
      259112, 259739, 260366, 260992, 261618, 262244, 262870, 263496, 264122, 264747, 265373, 265998,
      266623, 267248, 267872, 268497, 269121, 269745, 270369, 270993, 271617, 272240, 272864, 273487,
      274110, 274733, 275356, 275978, 276601, 277223, 277845, 278467, 279089, 279710, 280332, 280953,
      281575, 282196, 282816, 283437, 284058, 284678, 285299, 285919, 286539, 287159, 287778, 288398,
      289017, 289636, 290255, 290874, 291493, 292112, 292730, 293349, 293967, 294585, 295203, 295821,
      296439, 297056, 297673, 298291, 298908, 299525, 300141, 300758, 301375, 301991, 302607, 303223,
      303839, 304455, 305071, 305686, 306302, 306917, 307532, 308147, 308762, 309377, 309991, 310606,
      311220, 311834, 312448, 313062, 313676, 314290, 314903, 315517, 316130, 316743, 317356, 317969,
      318582, 319194, 319807, 320419, 321031, 321643, 322255, 322867, 323479, 324090, 324702, 325313,
      325924, 326535, 327146, 327757, 328367, 328978, 329588, 330199, 330809, 331419, 332029, 332639,
      333248, 333858, 334467, 335077, 335686, 336295, 336904, 337512, 338121, 338730, 339338, 339946,
      340555, 341163, 341771, 342379, 342986, 343594, 344201, 344809, 345416, 346023, 346630, 347237,
      347844, 348450, 349057, 349663, 350270, 350876, 351482, 352088, 352694, 353299, 353905, 354510,
      355116, 355721, 356326, 356931, 357536, 358141, 358746, 359350, 359955, 360559, 361163, 361767,
      362371, 362975, 363579, 364183, 364786, 365390, 365993, 366596, 367199, 367802, 368405, 369008,
      369611, 370213, 370816, 371418, 372020, 372623, 373225, 373826, 374428, 375030, 375632, 376233,
      376834, 377436, 378037, 378638, 379239, 379840, 380441, 381041, 381642, 382242, 382842, 383443,
      384043, 384643, 385243, 385843, 386442, 387042, 387641, 388241, 388840, 389439, 390038, 390637,
      391236, 391835, 392434, 393032, 393631, 394229, 394827, 395426, 396024, 396622, 397219, 397817,
      398415, 399012, 399610, 400207, 400805, 401402, 401999, 402596, 403193, 403790, 404386, 404983,
      405579, 406176, 406772, 407368, 407964, 408560, 409156, 409752, 410348, 410943, 411539, 412134,
      412730, 413325, 413920, 414515, 415110, 415705, 416300, 416894, 417489, 418083, 418678, 419272,
      419866, 420460, 421054, 421648, 422242, 422836, 423429, 424023, 424616, 425210, 425803, 426396,
      426989, 427582, 428175, 428768, 429361, 429953, 430546, 431138, 431731, 432323, 432915, 433507,
      434099, 434691, 435283, 435875, 436466, 437058, 437649, 438241, 438832, 439423, 440014, 440605,
      441196, 441787, 442378, 442969, 443559, 444150, 444740, 445330, 445921, 446511, 447101, 447691,
      448281, 448870, 449460, 450050, 450639, 451229, 451818, 452407, 452997, 453586, 454175, 454764,
      455353, 455941, 456530, 457119, 457707, 458296, 458884, 459472, 460060, 460649, 461237, 461825,
      462412, 463000, 463588, 464175, 464763, 465350, 465938, 466525, 467112, 467699, 468286, 468873,
      469460, 470047, 470634, 471220, 471807, 472393, 472980, 473566, 474152, 474738, 475324, 475910,
      476496, 477082, 477668, 478253, 478839, 479425, 480010, 480595, 481181, 481766, 482351, 482936,
      483521, 484106, 484690, 485275, 485860, 486444, 487029, 487613, 488198, 488782, 489366, 489950,
      490534, 491118, 491702, 492286, 492869, 493453, 494036, 494620, 495203, 495787, 496370, 496953,
      497536, 498119, 498702, 499285, 499868, 500450, 501033, 501616, 502198, 502781, 503363, 503945,
      504527, 505109, 505691, 506273, 506855, 507437, 508019, 508601, 509182, 509764, 510345, 510926,
      511508, 512089, 512670, 513251, 513832, 514413, 514994, 515575, 516156, 516736, 517317, 517897,
      518478, 519058, 519638, 520218, 520799, 521379, 521959, 522539, 523118, 523698, 524278, 524858,
      525437, 526017, 526596, 527175, 527755, 528334, 528913, 529492, 530071, 530650, 531229, 531808,
      532386, 532965, 533544, 534122, 534700, 535279, 535857, 536435, 537014, 537592, 538170, 538748,
      539326, 539903, 540481, 541059, 541636, 542214, 542791, 543369, 543946, 544523, 545101, 545678,
      546255, 546832, 547409, 547986, 548562, 549139, 549716, 550292, 550869, 551445, 552022, 552598,
      553174, 553750, 554327, 554903, 555479, 556055, 556630, 557206, 557782, 558358, 558933, 559509,
      560084, 560660, 561235, 561810, 562385, 562961, 563536, 564111, 564686, 565260, 565835, 566410,
      566985, 567559, 568134, 568708, 569283, 569857, 570431, 571006, 571580, 572154, 572728, 573302,
      573876, 574450, 575023, 575597, 576171, 576744, 577318, 577891, 578465, 579038, 579611, 580185,
      580758, 581331, 581904, 582477, 583050, 583623, 584195, 584768, 585341, 585913, 586486, 587058,
      587631, 588203, 588775, 589347, 589920, 590492, 591064, 591636, 592208, 592779, 593351, 593923,
      594495, 595066, 595638, 596209, 596781, 597352, 597923, 598494, 599066, 599637, 600208, 600779,
      601350, 601921, 602491, 603062, 603633, 604204, 604774, 605345, 605915, 606485, 607056, 607626,
      608196, 608766, 609337, 609907, 610477, 611046, 611616, 612186, 612756, 613326, 613895, 614465,
      615034, 615604, 616173, 616742, 617312, 617881, 618450, 619019, 619588, 620157, 620726, 621295,
      621864, 622432, 623001, 623570, 624138, 624707, 625275, 625844, 626412, 626980, 627549, 628117,
      628685, 629253, 629821, 630389, 630957, 631525, 632092, 632660, 633228, 633795, 634363, 634930,
      635498, 636065, 636633, 637200, 637767, 638334, 638901, 639468, 640035, 640602, 641169, 641736,
      642303, 642870, 643436, 644003, 644569, 645136, 645702, 646269, 646835, 647401, 647967, 648534,
      649100, 649666, 650232, 650798, 651364, 651929, 652495, 653061, 653627, 654192, 654758, 655323,
      655889, 656454, 657019, 657585, 658150, 658715, 659280, 659845, 660410, 660975, 661540, 662105,
      662670, 663235, 663799, 664364, 664929, 665493, 666058, 666622, 667186, 667751, 668315, 668879,
      669443, 670007, 670571, 671135, 671699, 672263, 672827, 673391, 673955, 674518, 675082, 675646,
      676209, 676773, 677336, 677899, 678463, 679026, 679589, 680152, 680716, 681279, 681842, 682405,
      682968, 683530, 684093, 684656, 685219, 685781, 686344, 686906, 687469, 688031, 688594, 689156,
      689718, 690281, 690843, 691405, 691967, 692529, 693091, 693653, 694215, 694777, 695339, 695900,
      696462, 697024, 697585, 698147, 698708, 699270, 699831, 700392, 700954, 701515, 702076, 702637,
      703198, 703759, 704320, 704881, 705442, 706003, 706564, 707125, 707685, 708246, 708807, 709367,
      709928, 710488, 711048, 711609, 712169, 712729, 713290, 713850, 714410, 714970, 715530, 716090,
      716650, 717210, 717769, 718329, 718889, 719449, 720008, 720568, 721127, 721687, 722246, 722805,
      723365, 723924, 724483, 725043, 725602, 726161, 726720, 727279, 727838, 728397, 728955, 729514,
      730073, 730632, 731190, 731749, 732308, 732866, 733425, 733983, 734541, 735100, 735658, 736216,
      736774, 737332, 737891, 738449, 739007, 739565, 740122, 740680, 741238, 741796, 742354, 742911,
      743469, 744027, 744584, 745142, 745699, 746256, 746814, 747371, 747928, 748485, 749043, 749600,
      750157, 750714, 751271, 751828, 752385, 752941, 753498, 754055, 754612, 755168, 755725, 756282,
      756838, 757395, 757951, 758507, 759064, 759620, 760176, 760732, 761289, 761845, 762401, 762957,
      763513, 764069, 764625, 765180, 765736, 766292, 766848, 767403, 767959, 768515, 769070, 769626,
      770181, 770736, 771292, 771847, 772402, 772958, 773513, 774068, 774623, 775178, 775733, 776288,
      776843, 777398, 777953, 778507, 779062, 779617, 780171, 780726, 781281, 781835, 782390, 782944,
      783498, 784053, 784607, 785161, 785716, 786270, 786824, 787378, 787932, 788486, 789040, 789594,
      790148, 790701, 791255, 791809, 792363, 792916, 793470, 794023, 794577, 795130, 795684, 796237,
      796791, 797344, 797897, 798450, 799004, 799557, 800110, 800663, 801216, 801769, 802322, 802875,
      803428, 803980, 804533, 805086, 805638, 806191, 806744, 807296, 807849, 808401, 808954, 809506,
      810058, 810611, 811163, 811715, 812267, 812819, 813371, 813923, 814475, 815027, 815579, 816131,
      816683, 817235, 817787, 818338, 818890, 819442, 819993, 820545, 821096, 821648, 822199, 822750,
      823302, 823853, 824404, 824956, 825507, 826058, 826609, 827160, 827711, 828262, 828813, 829364,
      829915, 830466, 831016, 831567, 832118, 832668, 833219, 833770, 834320, 834871, 835421, 835971,
      836522, 837072, 837622, 838173, 838723, 839273, 839823, 840373, 840923, 841473, 842023, 842573,
      843123, 843673, 844223, 844772, 845322, 845872, 846421, 846971, 847521, 848070, 848620, 849169,
      849718, 850268 >>

\* min(80, ambiguity_score ** 0.8) in units of 10^-4; past the table the power is over 80
BoundedPow08(score) ==
    Min(80 * 10000, IF score < Len(Pow08Table) THEN Pow08Table[score + 1]
                    ELSE Pow08Table[Len(Pow08Table)])

\* min(85, assumption_score ** 0.9) in units of 10^-4; past the table the power is over 85
BoundedPow09(score) ==
    Min(85 * 10000, IF score < Len(Pow09Table) THEN Pow09Table[score + 1]
                    ELSE Pow09Table[Len(Pow09Table)])

\* the weights without the severity multipliers: the base pair as it was chosen
BaseReadinessWeights(amb, asm) ==
    IF asm > amb THEN [assumption |-> 80, ambiguity |-> 20]
    ELSE IF amb > 600 THEN [assumption |-> 30, ambiguity |-> 70]
    ELSE [assumption |-> 60, ambiguity |-> 40]

\* the weights after the severity multipliers, in hundredths
ReadinessWeights(amb, asm) ==
    LET base == IF asm > amb THEN [assumption |-> 80, ambiguity |-> 20]
                ELSE IF amb > 600 THEN [assumption |-> 30, ambiguity |-> 70]
                ELSE [assumption |-> 60, ambiguity |-> 40]
    IN  [assumption |-> IF asm > 700 THEN (base.assumption * 15) \div 10
                        ELSE base.assumption,                    \* *= 1.5
         ambiguity |-> IF amb > 700 THEN (base.ambiguity * 13) \div 10
                       ELSE base.ambiguity]                      \* *= 1.3

\* complexity_factor in tenths
ComplexityFactor(t) ==
    LET text_length == IF t = <<>> THEN 50 ELSE WordCount(t)
    IN  IF text_length < 10 THEN 12
        ELSE IF text_length > 100 THEN 9
        ELSE 10

\* total_impact in units of 10^-6
TotalImpact(amb, asm) ==
    LET w == ReadinessWeights(amb, asm)
    IN  BoundedPow08(amb) * w.ambiguity + BoundedPow09(asm) * w.assumption

\* num / den >= k and num / den > k for a fraction with den > 0 and an integer k
FracAtLeast(r, k) == r.num \div r.den >= k
FracGreater(r, k) ==
    \/ r.num \div r.den > k
    \/ r.num \div r.den = k /\ r.num % r.den > 0

\* the same step without the bounds: the value the safeguards left, returned as it is
ClampReadinessOmitted(r) == r

\* max(0.0, min(95.0, readiness)) on a fraction of tenths
ClampReadiness(r) ==
    IF FracGreater(r, 950) THEN [num |-> 950, den |-> 1]
    ELSE IF r.num < 0 THEN [num |-> 0, den |-> 1]
    ELSE r

\* calculate_readiness_score(ambiguity_score, assumption_score, text): the readiness in
\* tenths as the fraction num / den
CalculateReadinessScore(amb, asm, t) ==
    LET total_impact == TotalImpact(amb, asm)                    \* units of 10^-6
        den == 1000000 + total_impact \div 10                    \* 10^5 * (10 + impact)
        \* 100 / (1 + total_impact / 10) * complexity_factor, in tenths, times den
        scaled == 10000000 * ComplexityFactor(t)
        safeguarded ==
            IF total_impact > 120 * 1000000
            THEN \* max(readiness * 0.8, 10)
                 IF (scaled * 8) \div den >= 100
                 THEN [num |-> scaled * 8, den |-> den]
                 ELSE [num |-> 100, den |-> 1]
            ELSE IF total_impact > 100 * 1000000
            THEN \* max(readiness * 0.9, 15)
                 IF (scaled * 9) \div den >= 150
                 THEN [num |-> scaled * 9, den |-> den]
                 ELSE [num |-> 150, den |-> 1]
            ELSE [num |-> scaled * 10, den |-> den]
    IN  ClampReadiness(safeguarded)

\* classify_readiness reading its thresholds 70 and 40 against a score in tenths
ClassifyReadinessInTenths(r) ==
    IF FracAtLeast(r, 70) THEN "Ready"
    ELSE IF FracAtLeast(r, 40) THEN "Needs clarification"
    ELSE "High risk for automation"

\* classify_readiness(readiness_score): ReadinessLevel.value
ClassifyReadiness(r) ==
    IF FracAtLeast(r, 700) THEN "Ready"
    ELSE IF FracAtLeast(r, 400) THEN "Needs clarification"
    ELSE "High risk for automation"

\* round(readiness_score, 1) in tenths
RoundReadiness(r) ==
    LET q == r.num \div r.den
        m == r.num % r.den
    IN  IF 2 * m > r.den THEN q + 1
        ELSE IF 2 * m = r.den THEN q + (q % 2)
        ELSE q

-----------------------------------------------------------------------------
(* Issue formatting and clarifying questions of RequirementScorer. *)

\* impact_map of _get_ambiguity_impact
impact_map_subjective ==
    <<[key |-> "fast", value |-> "May cause inconsistent test expectations and flaky performance tests"],
      [key |-> "slow", value |-> "May lead to unclear acceptance criteria for response times"],
      [key |-> "secure", value |-> "May result in inadequate security testing coverage"],
      [key |-> "user-friendly", value |-> "May cause subjective interpretation of usability requirements"],
      [key |-> "reliable", value |-> "May lead to undefined reliability and stability expectations"],
      [key |-> "scalable", value |-> "May result in unclear performance scaling requirements"],
      [key |-> "optimal", value |-> "May cause ambiguous optimization goals and success criteria"],
      [key |-> "default", value |-> "May lead to subjective interpretation and inconsistent testing"]>>

impact_map_modality ==
    <<[key |-> "should", value |-> "Creates uncertainty about whether this is a requirement or suggestion"],
      [key |-> "could", value |-> "May result in optional implementation and inconsistent behavior"],
      [key |-> "might", value |-> "Creates ambiguity about expected behavior under different conditions"],
      [key |-> "may", value |-> "May lead to inconsistent implementation across different scenarios"],
      [key |-> "default", value |-> "Creates uncertainty about requirement priority and implementation"]>>

\* _get_ambiguity_impact(issue)
GetAmbiguityImpact(issue) ==
    LET issue_text == Lower(issue.text)
    IN  CASE issue.type = "Subjective term" ->
                 Get(impact_map_subjective, issue_text,
                     Get(impact_map_subjective, "default", "May cause testing ambiguity"))
          [] issue.type = "Weak modality" ->
                 Get(impact_map_modality, issue_text,
                     Get(impact_map_modality, "default", "May cause testing ambiguity"))
          [] issue.type = "Undefined reference" ->
                 "May cause confusion about what specific element or condition is being referenced"
          [] issue.type = "Non-testable statement" ->
                 "Makes it impossible to create objective test cases and acceptance criteria"
          [] OTHER -> "May lead to unclear requirements and inconsistent testing"

\* critical_patterns of _get_assumption_impact
critical_patterns ==
    <<"user exists", "credentials exist", "user logged in", "permissions granted",
      "browser", "database", "api", "server", "environment">>

RECURSIVE ReplaceUnderscores(_)
\* pattern.replace('_', ' ')
ReplaceUnderscores(s) ==
    IF s = "" THEN ""
    ELSE (IF Head(s) = "_" THEN " " ELSE Head(s)) \o ReplaceUnderscores(Tail(s))

RECURSIVE FirstCriticalFrom(_, _)
\* the first of critical_patterns, from index k on, that occurs in s; 0 when none does
FirstCriticalFrom(s, k) ==
    IF k > Len(critical_patterns) THEN 0
    ELSE IF Contains(s, critical_patterns[k]) THEN k
    ELSE FirstCriticalFrom(s, k + 1)

\* _get_assumption_impact(issue)
GetAssumptionImpact(issue) ==
    LET assumption_text == Lower(issue.assumption)
        k == FirstCriticalFrom(assumption_text, 1)
    IN  IF k # 0
        THEN "Critical assumption - missing " \o ReplaceUnderscores(critical_patterns[k])
             \o " will cause test automation to fail"
        ELSE IF Contains(assumption_text, "data") \/ Contains(assumption_text, "record")
        THEN "May cause test data setup issues and inconsistent test results"
        ELSE IF Contains(assumption_text, "configuration") \/ Contains(assumption_text, "setup")
        THEN "May lead to environment-specific test failures and deployment issues"
        ELSE CASE issue.category = "Environment" ->
                      "May cause test failures in different environments or platforms"
               [] issue.category = "State" ->
                      "May lead to flaky tests due to unpredictable system state"
               [] issue.category = "Data" ->
                      "May result in test data inconsistencies and unreliable test execution"
               [] OTHER -> "May lead to unexpected test behavior and automation failures"

\* hasattr(issue, 'category'): the issue is an AssumptionIssue
IsAssumptionIssue(issue) == "category" \in DOMAIN issue

\* the dict _format_issues_with_impact builds for one issue
FormatIssue(issue) ==
    IF IsAssumptionIssue(issue)
    THEN [type |-> "Assumption", message |-> issue.message, category |-> issue.category,
          assumption |-> issue.assumption, impact |-> GetAssumptionImpact(issue)]
    ELSE [type |-> "Ambiguity", message |-> issue.message,
          impact |-> GetAmbiguityImpact(issue)]

RECURSIVE FormatDistinctIssues(_)
\* a formatting that leaves out an issue equal to one later in the list
FormatDistinctIssues(issues) ==
    IF issues = <<>> THEN <<>>
    ELSE (IF \E k \in 2..Len(issues) : issues[k] = Head(issues)
          THEN <<>> ELSE <<FormatIssue(Head(issues))>>)
         \o FormatDistinctIssues(Tail(issues))

\* _format_issues_with_impact(issues)
FormatIssuesWithImpact(issues) == [k \in 1..Len(issues) |-> FormatIssue(issues[k])]

\* question_map of _get_ambiguity_question, in dict order
ambiguity_question_map ==
    <<[key |-> "subjective term",
       value |-> "What specific, measurable criteria define success for this requirement?"],
      [key |-> "weak modality",
       value |-> "Is this a mandatory requirement or optional behavior?"],
      [key |-> "undefined reference",
       value |-> "What specific element or condition does this refer to?"],
      [key |-> "non-testable",
       value |-> "What specific, observable behavior would indicate success?"]>>

\* question_map of _get_assumption_question, in dict order
assumption_question_map ==
    <<[key |-> "user exists", value |-> "What test user accounts should be prepared?"],
      [key |-> "credentials", value |-> "What user credentials are needed for testing?"],
      [key |-> "logged in", value |-> "Should the user be pre-authenticated for this test?"],
      [key |-> "permissions", value |-> "What user roles and permissions are required?"],
      [key |-> "browser", value |-> "Which browsers and versions should be supported?"],
      [key |-> "database", value |-> "What database state should exist before testing?"],
      [key |-> "environment", value |-> "What environmental conditions are required?"],
      [key |-> "data", value |-> "What test data should be prepared?"]>>

RECURSIVE FirstQuestionFrom(_, _, _, _)
\* for key, question in question_map.items(): if key in s: return question
FirstQuestionFrom(question_map, s, k, default) ==
    IF k > Len(question_map) THEN default
    ELSE IF Contains(s, question_map[k].key) THEN question_map[k].value
    ELSE FirstQuestionFrom(question_map, s, k + 1, default)

\* _get_ambiguity_question(issue)
GetAmbiguityQuestion(issue) ==
    FirstQuestionFrom(ambiguity_question_map, Lower(issue.message), 1,
                      "What specific criteria should be used to evaluate this requirement?")

\* _get_assumption_question(issue)
GetAssumptionQuestion(issue) ==
    FirstQuestionFrom(assumption_question_map,
                      Lower(IF "assumption" \in DOMAIN issue THEN issue.assumption ELSE ""), 1,
                      "What specific conditions or data are required for this test?")

\* a question list that outlives the call: the next call starts from the last one returned
StandardQuestionsKept ==
    IF "clarifying_questions" \in DOMAIN result THEN result.clarifying_questions
    ELSE <<"What are the exact preconditions required for this test?",
           "What is the expected result and how should it be verified?">>

\* the two questions _generate_clarifying_questions starts from
StandardQuestions ==
    <<"What are the exact preconditions required for this test?",
      "What is the expected result and how should it be verified?">>

RECURSIVE AddIssueQuestions(_, _)
\* the loop of _generate_clarifying_questions over the issues, from the list so far
AddIssueQuestions(so_far, issues) ==
    IF issues = <<>> THEN so_far
    ELSE LET issue == Head(issues)
             question == IF issue.type = "Ambiguity" THEN GetAmbiguityQuestion(issue)
                         ELSE IF issue.type = "Assumption" THEN GetAssumptionQuestion(issue)
                         ELSE ""
         IN  AddIssueQuestions(
                 IF question # "" /\ ~InList(question, so_far)
                 THEN Append(so_far, question) ELSE so_far,
                 Tail(issues))

\* the same list with no limit on its length
FirstEightOmitted(list) == list

\* list[:8]
FirstEight(list) == SubSeq(list, 1, Min(8, Len(list)))

\* _generate_clarifying_questions(issues, text)
GenerateClarifyingQuestions(issues, t) ==
    FirstEight(AddIssueQuestions(StandardQuestions, issues))

-----------------------------------------------------------------------------
(* SuggestionGenerator.generate_suggestions. *)

\* ambiguity_suggestions["Subjective term"]: every key with the first template of its list
ambiguity_suggestions_Subjective ==
    <<[key |-> "fast", value |-> "What is the acceptable response time in seconds?"],
      [key |-> "slow", value |-> "What is the maximum acceptable response time?"],
      [key |-> "quick", value |-> "What is the expected response time in milliseconds?"],
      [key |-> "rapid", value |-> "What is the required speed in operations per second?"],
      [key |-> "instant", value |-> "What is the maximum acceptable delay in milliseconds?"],
      [key |-> "immediate", value |-> "What is the maximum delay before response?"],
      [key |-> "speedy", value |-> "What is the required processing speed?"],
      [key |-> "swift", value |-> "What is the expected execution time?"],
      [key |-> "brisk", value |-> "What is the required briskness threshold?"],
      [key |-> "sluggish", value |-> "What is the unacceptable slowness threshold?"],
      [key |-> "laggy", value |-> "What is the maximum acceptable lag time?"],
      [key |-> "smooth", value |-> "What performance characteristics define smoothness?"],
      [key |-> "responsive", value |-> "What is the required response time for user interactions?"],
      [key |-> "snappy", value |-> "What is the expected snappiness threshold?"],
      [key |-> "nimble", value |-> "What agility requirements are expected?"],
      [key |-> "agile", value |-> "What is the required agility in response?"],
      [key |-> "zippy", value |-> "What is the expected zippy performance threshold?"],
      [key |-> "blazing", value |-> "What is the blazing speed requirement?"],
      [key |-> "lightning", value |-> "What is the lightning-fast requirement?"],
      [key |-> "superfast", value |-> "What is the superfast performance threshold?"],
      [key |-> "ultrafast", value |-> "What is the ultrafast requirement?"],
      [key |-> "fluid", value |-> "What performance characteristics define fluidity?"],
      [key |-> "seamless", value |-> "What defines seamless operation?"],
      [key |-> "effortless", value |-> "What defines effortless interaction?"],
      [key |-> "default", value |-> "What specific, measurable criteria define this subjective term?"]>>

\* ambiguity_suggestions["Weak modality"]: every key with the first template of its list
ambiguity_suggestions_Modality ==
    <<[key |-> "should", value |-> "Is this a mandatory requirement or optional?"],
      [key |-> "could", value |-> "Under what specific conditions should this behavior occur?"],
      [key |-> "might", value |-> "When and under what conditions should this occur?"],
      [key |-> "may", value |-> "What specific conditions determine when this behavior occurs?"],
      [key |-> "can", value |-> "What specific capabilities enable this functionality?"],
      [key |-> "if possible", value |-> "What should happen if this is not possible?"],
      [key |-> "when possible", value |-> "What takes precedence when this is not possible?"],
      [key |-> "as needed", value |-> "What triggers determine when this is needed?"],
      [key |-> "when necessary", value |-> "What conditions make this necessary?"],
      [key |-> "depending on", value |-> "What specific factors determine the behavior?"],
      [key |-> "in case of", value |-> "What specific conditions trigger this behavior?"],
      [key |-> "provided that", value |-> "What specific conditions must be satisfied?"],
      [key |-> "ideally", value |-> "What is the minimum acceptable behavior if ideal is not achieved?"],
      [key |-> "preferably", value |-> "What is the alternative if preference cannot be satisfied?"],
      [key |-> "would like", value |-> "What is the minimum viable behavior?"],
      [key |-> "possibly", value |-> "What probability makes this possible?"],
      [key |-> "potentially", value |-> "What factors could enable this?"],
      [key |-> "feasible", value |-> "What specific constraints determine feasibility?"],
      [key |-> "viable", value |-> "What viability criteria must be met?"],
      [key |-> "practicable", value |-> "What practical constraints apply?"],
      [key |-> "achievable", value |-> "What achievement criteria are defined?"],
      [key |-> "attainable", value |-> "What attainment conditions exist?"],
      [key |-> "realizable", value |-> "What realization constraints exist?"],
      [key |-> "doable", value |-> "What specific capabilities are required?"],
      [key |-> "workable", value |-> "What workability criteria apply?"],
      [key |-> "default", value |-> "What specific conditions determine when this occurs?"]>>

\* ambiguity_suggestions["Undefined reference"]: every key with the first template of its list
ambiguity_suggestions_Reference ==
    <<[key |-> "it", value |-> "What specific element, component, or data does 'it' refer to?"],
      [key |-> "this", value |-> "What specific element, component, or data does 'this' refer to?"],
      [key |-> "that", value |-> "What specific element, component, or data does 'that' refer to?"],
      [key |-> "these", value |-> "What specific elements or components do 'these' refer to?"],
      [key |-> "those", value |-> "What specific elements or components do 'those' refer to?"],
      [key |-> "them", value |-> "What specific elements or components do 'them' refer to?"],
      [key |-> "they", value |-> "What specific elements or components do 'they' refer to?"],
      [key |-> "their", value |-> "What specific elements or components do 'their' refer to?"],
      [key |-> "theirs", value |-> "What specific elements or components do 'theirs' refer to?"],
      [key |-> "itself", value |-> "What specific element or component does 'itself' refer to?"],
      [key |-> "themselves", value |-> "What specific elements or components do 'themselves' refer to?"],
      [key |-> "one", value |-> "What specific element or component does 'one' refer to?"],
      [key |-> "ones", value |-> "What specific elements or components do 'ones' refer to?"],
      [key |-> "such", value |-> "What specific characteristics or examples does 'such' refer to?"],
      [key |-> "same", value |-> "What specific element or standard does 'same' refer to?"],
      [key |-> "other", value |-> "What specific alternative or different element does 'other' refer to?"],
      [key |-> "others", value |-> "What specific alternative or different elements do 'others' refer to?"],
      [key |-> "another", value |-> "What specific alternative element does 'another' refer to?"],
      [key |-> "each", value |-> "What specific elements does 'each' refer to?"],
      [key |-> "every", value |-> "What specific elements does 'every' refer to?"],
      [key |-> "all", value |-> "What specific elements does 'all' refer to?"],
      [key |-> "some", value |-> "What specific elements does 'some' refer to?"],
      [key |-> "any", value |-> "What specific elements does 'any' refer to?"],
      [key |-> "none", value |-> "What specific elements does 'none' refer to?"],
      [key |-> "both", value |-> "What specific pair of elements does 'both' refer to?"],
      [key |-> "either", value |-> "What specific alternative elements does 'either' refer to?"],
      [key |-> "the system", value |-> "Which specific system or subsystem is being referenced?"],
      [key |-> "the application", value |-> "Which specific application is being referenced?"],
      [key |-> "the software", value |-> "Which specific software component is being referenced?"],
      [key |-> "the platform", value |-> "Which specific platform is being referenced?"],
      [key |-> "the component", value |-> "Which specific component is being referenced?"],
      [key |-> "the module", value |-> "Which specific module is being referenced?"],
      [key |-> "the service", value |-> "Which specific service is being referenced?"],
      [key |-> "the interface", value |-> "Which specific interface is being referenced?"],
      [key |-> "the api", value |-> "Which specific API is being referenced?"],
      [key |-> "the database", value |-> "Which specific database is being referenced?"],
      [key |-> "the server", value |-> "Which specific server is being referenced?"],
      [key |-> "the client", value |-> "What type of client is being referenced?"],
      [key |-> "the backend", value |-> "Which specific backend is being referenced?"],
      [key |-> "the frontend", value |-> "Which specific frontend is being referenced?"],
      [key |-> "the middleware", value |-> "Which specific middleware is being referenced?"],
      [key |-> "the framework", value |-> "Which specific framework is being referenced?"],
      [key |-> "the library", value |-> "Which specific library is being referenced?"],
      [key |-> "the tool", value |-> "Which specific tool is being referenced?"],
      [key |-> "the utility", value |-> "Which specific utility is being referenced?"],
      [key |-> "the engine", value |-> "Which specific engine is being referenced?"],
      [key |-> "the user", value |-> "What type of user or user role is being referenced?"],
      [key |-> "the customer", value |-> "What type of customer is being referenced?"],
      [key |-> "the admin", value |-> "What type of administrator is being referenced?"],
      [key |-> "the manager", value |-> "What type of manager is being referenced?"],
      [key |-> "the operator", value |-> "What type of operator is being referenced?"],
      [key |-> "the visitor", value |-> "What type of visitor is being referenced?"],
      [key |-> "the data", value |-> "What specific data is being referenced?"],
      [key |-> "the information", value |-> "What specific information is being referenced?"],
      [key |-> "the content", value |-> "What specific content is being referenced?"],
      [key |-> "the record", value |-> "What specific record is being referenced?"],
      [key |-> "the entry", value |-> "What specific entry is being referenced?"],
      [key |-> "the item", value |-> "What specific item is being referenced?"],
      [key |-> "the object", value |-> "What specific object is being referenced?"],
      [key |-> "the element", value |-> "What specific element is being referenced?"],
      [key |-> "default", value |-> "What specific element or component is being referenced?"]>>

\* ambiguity_suggestions["Non-testable statement"]: every key with the first template of its list
ambiguity_suggestions_NonTestable ==
    <<[key |-> "default", value |-> "What specific, measurable criteria define success?"]>>

\* assumption_suggestions["Environment"]: every key with the first template of its list
assumption_suggestions_Environment ==
    <<[key |-> "UI interaction", value |-> "Which browser(s), device(s), and operating system(s) should be supported?"],
      [key |-> "browsers", value |-> "Which specific browsers and versions must be supported?"],
      [key |-> "devices", value |-> "Which specific devices and screen sizes must be supported?"],
      [key |-> "operating_systems", value |-> "Which specific operating systems and versions must be supported?"],
      [key |-> "network", value |-> "What network conditions must be supported?"],
      [key |-> "display", value |-> "What display resolutions and types must be supported?"],
      [key |-> "databases", value |-> "Which specific database systems must be supported?"],
      [key |-> "apis", value |-> "Which specific APIs and protocols must be supported?"],
      [key |-> "cloud_providers", value |-> "Which cloud platforms must be supported?"],
      [key |-> "default", value |-> "What is the target environment for this requirement?"]>>

\* assumption_suggestions["Data"]: every key with the first template of its list
assumption_suggestions_Data ==
    <<[key |-> "user_exists", value |-> "What specific test user accounts should be available?"],
      [key |-> "credentials_exist", value |-> "What specific user credentials should be prepared?"],
      [key |-> "form_filled", value |-> "What specific data should be pre-filled in forms?"],
      [key |-> "data_entered", value |-> "What specific input data should be prepared?"],
      [key |-> "record_exists", value |-> "What specific database records should exist?"],
      [key |-> "data_exists", value |-> "What specific test data should be available?"],
      [key |-> "page_exists", value |-> "What specific pages should be available?"],
      [key |-> "resource_exists", value |-> "What specific resources should be available?"],
      [key |-> "content_exists", value |-> "What specific content should be available?"],
      [key |-> "file_exists", value |-> "What specific files should be available?"],
      [key |-> "recipient_exists", value |-> "What specific message recipients should exist?"],
      [key |-> "sender_exists", value |-> "What specific message senders should exist?"],
      [key |-> "task_exists", value |-> "What specific tasks should be available?"],
      [key |-> "item_exists", value |-> "What specific items should be available?"],
      [key |-> "issue_exists", value |-> "What specific issues should be available?"],
      [key |-> "default", value |-> "What test data or records need to be prepared?"]>>

\* assumption_suggestions["State"]: every key with the first template of its list
assumption_suggestions_State ==
    <<[key |-> "user_logged_in", value |-> "Should the user be pre-authenticated for testing?"],
      [key |-> "permissions_granted", value |-> "What specific user role and permissions are required?"],
      [key |-> "condition_exists", value |-> "What specific preconditions must be met?"],
      [key |-> "error_trigger", value |-> "How can specific error conditions be reliably reproduced?"],
      [key |-> "failure_condition", value |-> "What conditions will cause failure scenarios?"],
      [key |-> "admin_role", value |-> "What admin user roles should be available?"],
      [key |-> "manager_role", value |-> "What manager user roles should be available?"],
      [key |-> "user_role", value |-> "What regular user roles should be available?"],
      [key |-> "account_active", value |-> "What user account states should be available?"],
      [key |-> "form_valid", value |-> "What form validation states should exist?"],
      [key |-> "space_available", value |-> "What storage space should be available?"],
      [key |-> "container_exists", value |-> "What parent containers should exist?"],
      [key |-> "position_valid", value |-> "What valid insertion positions should exist?"],
      [key |-> "list_exists", value |-> "What lists or collections should exist?"],
      [key |-> "search_index_exists", value |-> "What search indexes should be populated?"],
      [key |-> "sortable_data_exists", value |-> "What sortable data sets should exist?"],
      [key |-> "searchable_content_exists", value |-> "What searchable content should exist?"],
      [key |-> "query_engine_available", value |-> "What query processing should be available?"],
      [key |-> "searchable_items_exist", value |-> "What items should be searchable?"],
      [key |-> "lookup_table_exists", value |-> "What reference data should be available?"],
      [key |-> "data_source_available", value |-> "What data sources should be accessible?"],
      [key |-> "api_endpoint_available", value |-> "What API endpoints should be operational?"],
      [key |-> "resource_accessible", value |-> "What resources should be accessible?"],
      [key |-> "verification_criteria_defined", value |-> "What verification criteria should be configured?"],
      [key |-> "check_criteria_defined", value |-> "What check criteria should be configured?"],
      [key |-> "validation_rules_defined", value |-> "What validation rules should be configured?"],
      [key |-> "confirmation_criteria_defined", value |-> "What confirmation criteria should be configured?"],
      [key |-> "ensurance_criteria_defined", value |-> "What ensurance criteria should be configured?"],
      [key |-> "assertion_criteria_defined", value |-> "What assertion criteria should be configured?"],
      [key |-> "test_criteria_defined", value |-> "What test criteria should be configured?"],
      [key |-> "examination_criteria_defined", value |-> "What examination criteria should be configured?"],
      [key |-> "inspection_criteria_defined", value |-> "What inspection criteria should be configured?"],
      [key |-> "audit_criteria_defined", value |-> "What audit criteria should be configured?"],
      [key |-> "upload_permissions", value |-> "What upload permissions should be configured?"],
      [key |-> "download_permissions", value |-> "What download permissions should be configured?"],
      [key |-> "export_permissions", value |-> "What export permissions should be configured?"],
      [key |-> "import_permissions", value |-> "What import permissions should be configured?"],
      [key |-> "attachment_permissions", value |-> "What attachment permissions should be configured?"],
      [key |-> "sharing_permissions", value |-> "What sharing permissions should be configured?"],
      [key |-> "transfer_permissions", value |-> "What transfer permissions should be configured?"],
      [key |-> "copy_permissions", value |-> "What copy permissions should be configured?"],
      [key |-> "move_permissions", value |-> "What move permissions should be configured?"],
      [key |-> "rename_permissions", value |-> "What rename permissions should be configured?"],
      [key |-> "communication_channel_available", value |-> "What communication channels should be operational?"],
      [key |-> "email_service_configured", value |-> "What email services should be configured?"],
      [key |-> "notification_system_available", value |-> "What notification systems should be operational?"],
      [key |-> "alert_system_configured", value |-> "What alert systems should be configured?"],
      [key |-> "broadcast_permissions", value |-> "What broadcast permissions should be configured?"],
      [key |-> "publishing_permissions", value |-> "What publishing permissions should be configured?"],
      [key |-> "posting_permissions", value |-> "What posting permissions should be configured?"],
      [key |-> "commenting_permissions", value |-> "What commenting permissions should be configured?"],
      [key |-> "reply_permissions", value |-> "What reply permissions should be configured?"],
      [key |-> "admin_permissions", value |-> "What admin permissions should be configured?"],
      [key |-> "setup_permissions", value |-> "What setup permissions should be configured?"],
      [key |-> "init_permissions", value |-> "What initialization permissions should be configured?"],
      [key |-> "customization_permissions", value |-> "What customization permissions should be configured?"],
      [key |-> "personalization_permissions", value |-> "What personalization permissions should be configured?"],
      [key |-> "adjustment_permissions", value |-> "What adjustment permissions should be configured?"],
      [key |-> "tuning_permissions", value |-> "What tuning permissions should be configured?"],
      [key |-> "optimization_permissions", value |-> "What optimization permissions should be configured?"],
      [key |-> "monitoring_permissions", value |-> "What monitoring permissions should be configured?"],
      [key |-> "tracking_permissions", value |-> "What tracking permissions should be configured?"],
      [key |-> "observation_permissions", value |-> "What observation permissions should be configured?"],
      [key |-> "watching_permissions", value |-> "What watching permissions should be configured?"],
      [key |-> "following_permissions", value |-> "What following permissions should be configured?"],
      [key |-> "logging_permissions", value |-> "What logging permissions should be configured?"],
      [key |-> "audit_permissions", value |-> "What audit permissions should be configured?"],
      [key |-> "tracing_permissions", value |-> "What tracing permissions should be configured?"],
      [key |-> "approval_permissions", value |-> "What approval permissions should be configured?"],
      [key |-> "approval_workflow_active", value |-> "What approval workflows should be active?"],
      [key |-> "rejection_permissions", value |-> "What rejection permissions should be configured?"],
      [key |-> "rejection_workflow_active", value |-> "What rejection workflows should be active?"],
      [key |-> "review_permissions", value |-> "What review permissions should be configured?"],
      [key |-> "assignment_permissions", value |-> "What assignment permissions should be configured?"],
      [key |-> "assignee_exists", value |-> "What assignee roles should be available?"],
      [key |-> "delegation_permissions", value |-> "What delegation permissions should be configured?"],
      [key |-> "delegate_exists", value |-> "What delegate roles should be available?"],
      [key |-> "escalation_permissions", value |-> "What escalation permissions should be configured?"],
      [key |-> "escalation_path_defined", value |-> "What escalation paths should be defined?"],
      [key |-> "resolution_permissions", value |-> "What resolution permissions should be configured?"],
      [key |-> "closure_permissions", value |-> "What closure permissions should be configured?"],
      [key |-> "reopen_permissions", value |-> "What reopen permissions should be configured?"],
      [key |-> "default", value |-> "What system state or user context is required?"]>>

\* key_mappings of _extract_assumption_key, in dict order
extract_key_mappings ==
    <<[key |-> "user exists", value |-> "user_exists"],
      [key |-> "credentials", value |-> "credentials_exist"],
      [key |-> "logged in", value |-> "user_logged_in"],
      [key |-> "permissions", value |-> "permissions_granted"],
      [key |-> "form filled", value |-> "form_filled"],
      [key |-> "data entered", value |-> "data_entered"],
      [key |-> "record exists", value |-> "record_exists"],
      [key |-> "condition exists", value |-> "condition_exists"],
      [key |-> "data exists", value |-> "data_exists"],
      [key |-> "error", value |-> "error_trigger"],
      [key |-> "failure", value |-> "failure_condition"],
      [key |-> "admin", value |-> "admin_role"],
      [key |-> "manager", value |-> "manager_role"],
      [key |-> "user", value |-> "user_role"],
      [key |-> "file exists", value |-> "file_exists"],
      [key |-> "recipient exists", value |-> "recipient_exists"],
      [key |-> "sender exists", value |-> "sender_exists"],
      [key |-> "task exists", value |-> "task_exists"],
      [key |-> "item exists", value |-> "item_exists"],
      [key |-> "issue exists", value |-> "issue_exists"],
      [key |-> "page exists", value |-> "page_exists"],
      [key |-> "resource exists", value |-> "resource_exists"],
      [key |-> "content exists", value |-> "content_exists"],
      [key |-> "space available", value |-> "space_available"],
      [key |-> "container exists", value |-> "container_exists"],
      [key |-> "position valid", value |-> "position_valid"],
      [key |-> "list exists", value |-> "list_exists"],
      [key |-> "search index exists", value |-> "search_index_exists"],
      [key |-> "sortable data exists", value |-> "sortable_data_exists"],
      [key |-> "searchable content exists", value |-> "searchable_content_exists"],
      [key |-> "query engine available", value |-> "query_engine_available"],
      [key |-> "searchable items exist", value |-> "searchable_items_exist"],
      [key |-> "lookup table exists", value |-> "lookup_table_exists"],
      [key |-> "data source available", value |-> "data_source_available"],
      [key |-> "api endpoint available", value |-> "api_endpoint_available"],
      [key |-> "resource accessible", value |-> "resource_accessible"],
      [key |-> "verification criteria defined", value |-> "verification_criteria_defined"],
      [key |-> "check criteria defined", value |-> "check_criteria_defined"],
      [key |-> "validation rules defined", value |-> "validation_rules_defined"],
      [key |-> "confirmation criteria defined", value |-> "confirmation_criteria_defined"],
      [key |-> "ensurance criteria defined", value |-> "ensurance_criteria_defined"],
      [key |-> "assertion criteria defined", value |-> "assertion_criteria_defined"],
      [key |-> "test criteria defined", value |-> "test_criteria_defined"],
      [key |-> "examination criteria defined", value |-> "examination_criteria_defined"],
      [key |-> "inspection criteria defined", value |-> "inspection_criteria_defined"],
      [key |-> "audit criteria defined", value |-> "audit_criteria_defined"],
      [key |-> "upload permissions", value |-> "upload_permissions"],
      [key |-> "download permissions", value |-> "download_permissions"],
      [key |-> "export permissions", value |-> "export_permissions"],
      [key |-> "import permissions", value |-> "import_permissions"],
      [key |-> "attachment permissions", value |-> "attachment_permissions"],
      [key |-> "sharing permissions", value |-> "sharing_permissions"],
      [key |-> "transfer permissions", value |-> "transfer_permissions"],
      [key |-> "copy permissions", value |-> "copy_permissions"],
      [key |-> "move permissions", value |-> "move_permissions"],
      [key |-> "rename permissions", value |-> "rename_permissions"],
      [key |-> "communication channel available", value |-> "communication_channel_available"],
      [key |-> "email service configured", value |-> "email_service_configured"],
      [key |-> "notification system available", value |-> "notification_system_available"],
      [key |-> "alert system configured", value |-> "alert_system_configured"],
      [key |-> "broadcast permissions", value |-> "broadcast_permissions"],
      [key |-> "publishing permissions", value |-> "publishing_permissions"],
      [key |-> "posting permissions", value |-> "posting_permissions"],
      [key |-> "commenting permissions", value |-> "commenting_permissions"],
      [key |-> "reply permissions", value |-> "reply_permissions"],
      [key |-> "admin permissions", value |-> "admin_permissions"],
      [key |-> "setup permissions", value |-> "setup_permissions"],
      [key |-> "init permissions", value |-> "init_permissions"],
      [key |-> "customization permissions", value |-> "customization_permissions"],
      [key |-> "personalization permissions", value |-> "personalization_permissions"],
      [key |-> "adjustment permissions", value |-> "adjustment_permissions"],
      [key |-> "tuning permissions", value |-> "tuning_permissions"],
      [key |-> "optimization permissions", value |-> "optimization_permissions"],
      [key |-> "monitoring permissions", value |-> "monitoring_permissions"],
      [key |-> "tracking permissions", value |-> "tracking_permissions"],
      [key |-> "observation permissions", value |-> "observation_permissions"],
      [key |-> "watching permissions", value |-> "watching_permissions"],
      [key |-> "following permissions", value |-> "following_permissions"],
      [key |-> "logging permissions", value |-> "logging_permissions"],
      [key |-> "audit permissions", value |-> "audit_permissions"],
      [key |-> "tracing permissions", value |-> "tracing_permissions"],
      [key |-> "approval permissions", value |-> "approval_permissions"],
      [key |-> "approval workflow active", value |-> "approval_workflow_active"],
      [key |-> "rejection permissions", value |-> "rejection_permissions"],
      [key |-> "rejection workflow active", value |-> "rejection_workflow_active"],
      [key |-> "review permissions", value |-> "review_permissions"],
      [key |-> "assignment permissions", value |-> "assignment_permissions"],
      [key |-> "assignee exists", value |-> "assignee_exists"],
      [key |-> "delegation permissions", value |-> "delegation_permissions"],
      [key |-> "delegate exists", value |-> "delegate_exists"],
      [key |-> "escalation permissions", value |-> "escalation_permissions"],
      [key |-> "escalation path defined", value |-> "escalation_path_defined"],
      [key |-> "resolution permissions", value |-> "resolution_permissions"],
      [key |-> "closure permissions", value |-> "closure_permissions"],
      [key |-> "reopen permissions", value |-> "reopen_permissions"],
      [key |-> "account active", value |-> "account_active"],
      [key |-> "form valid", value |-> "form_valid"]>>

RECURSIVE ExtractKeyFrom(_, _)
\* the loop of _extract_assumption_key over key_mappings, from row k on
ExtractKeyFrom(assumption_lower, k) ==
    IF k > Len(extract_key_mappings) THEN "default"
    ELSE IF Contains(assumption_lower, extract_key_mappings[k].key)
         THEN extract_key_mappings[k].value
    ELSE ExtractKeyFrom(assumption_lower, k + 1)

\* _extract_assumption_key(issue)
ExtractAssumptionKey(issue) == ExtractKeyFrom(Lower(issue.assumption), 1)

\* key in templates
HasKey(table, key) == \E k \in 1..Len(table) : table[k].key = key

\* _generate_ambiguity_suggestion(issue)
GenerateAmbiguitySuggestion(issue) ==
    LET issue_text == Lower(issue.text)
        fallback == "What specific criteria define '" \o issue.text \o "'?"
        templates ==
            CASE issue.type = "Subjective term" -> ambiguity_suggestions_Subjective
              [] issue.type = "Weak modality" -> ambiguity_suggestions_Modality
              [] issue.type = "Undefined reference" -> ambiguity_suggestions_Reference
              [] issue.type = "Non-testable statement" -> ambiguity_suggestions_NonTestable
              [] OTHER -> <<>>
    IN  IF HasKey(templates, issue_text) THEN Get(templates, issue_text, fallback)
        ELSE Get(templates, "default", fallback)

RECURSIVE TextMatchFrom(_, _, _)
\* the text-based matching loop of _generate_assumption_suggestion: the row of the first
\* key other than "default" that occurs in the issue text; 0 when none does
TextMatchFrom(templates, issue_text_lower, k) ==
    IF k > Len(templates) THEN 0
    ELSE IF templates[k].key # "default" /\ Contains(issue_text_lower, templates[k].key)
         THEN k
    ELSE TextMatchFrom(templates, issue_text_lower, k + 1)

\* _generate_assumption_suggestion(issue)
GenerateAssumptionSuggestion(issue) ==
    LET category == issue.category
        fallback == "What specific " \o Lower(category) \o " requirements are needed?"
        templates ==
            CASE category = "Environment" -> assumption_suggestions_Environment
              [] category = "Data" -> assumption_suggestions_Data
              [] category = "State" -> assumption_suggestions_State
              [] OTHER -> <<>>
        assumption_key == ExtractAssumptionKey(issue)
        k == TextMatchFrom(templates, Lower(issue.text), 1)
    IN  IF HasKey(templates, assumption_key) THEN Get(templates, assumption_key, fallback)
        ELSE IF k # 0 THEN templates[k].value
        ELSE Get(templates, "default", fallback)

\* _contains_action_words, _contains_data_operations, _contains_ui_interactions
ContainsActionWords(s) ==
    ContainsAny(Lower(s), <<"click", "tap", "press", "select", "type", "enter", "submit", "save">>)

ContainsDataOperations(s) ==
    ContainsAny(Lower(s), <<"create", "update", "delete", "add", "edit", "modify", "remove">>)

ContainsUiInteractions(s) ==
    ContainsAny(Lower(s), <<"button", "field", "form", "page", "screen", "menu", "dialog">>)

\* standard_questions of _get_standard_test_case_questions
standard_questions ==
    <<"What are the exact preconditions required for this test?",
      "What is the expected result and how should it be verified?",
      "What test data or test accounts are needed?",
      "Are there any timing or synchronization requirements?",
      "What should happen if the test fails - any cleanup needed?",
      "Does this test have any dependencies on other tests?",
      "What are the acceptable performance thresholds?",
      "How should edge cases or error conditions be handled?",
      "What logging or reporting is required during test execution?",
      "Are there any environment-specific considerations?">>

\* _get_standard_test_case_questions(text), text given as a str
GetStandardTestCaseQuestions(s) ==
    FirstEight(
        standard_questions
        \o (IF ContainsActionWords(s)
            THEN <<"What are the specific user actions and their sequence?">> ELSE <<>>)
        \o (IF ContainsDataOperations(s)
            THEN <<"What data states should exist before and after the test?">> ELSE <<>>)
        \o (IF ContainsUiInteractions(s)
            THEN <<"What are the exact UI element selectors and interaction methods?">>
            ELSE <<>>))

RECURSIVE AddIssueSuggestions(_, _)
\* the loop of generate_suggestions over the issues, from the list so far
AddIssueSuggestions(so_far, issue_list) ==
    IF issue_list = <<>> THEN so_far
    ELSE LET issue == Head(issue_list)
             suggestion == IF IsAssumptionIssue(issue) THEN GenerateAssumptionSuggestion(issue)
                           ELSE GenerateAmbiguitySuggestion(issue)
         IN  AddIssueSuggestions(
                 IF suggestion # "" /\ ~InList(suggestion, so_far)
                 THEN Append(so_far, suggestion) ELSE so_far,
                 Tail(issue_list))

\* generate_suggestions(issues, text, always_ask), text given as a str
GenerateSuggestions(issue_list, s, ask) ==
    AddIssueSuggestions(IF ask THEN GetStandardTestCaseQuestions(s) ELSE <<>>, issue_list)

-----------------------------------------------------------------------------
(* RequirementScorer.analyze_text and the cache of OptimizedRequirementScorer. *)

\* analyze_text(text) by a scorer whose detectors loaded the given pipeline
AnalyzeText(pipeline, words) ==
    LET s == Join(words)
        found_ambiguities == DetectAmbiguities(pipeline, words)
        found_assumptions == DetectAssumptions(s)
        analysed_ambiguity == CalculateAmbiguityScore(found_ambiguities, words)
        analysed_assumptions == CalculateAssumptionScore(found_assumptions, words)
        readiness_score ==
            CalculateReadinessScore(analysed_ambiguity.score, analysed_assumptions.score, words)
        formatted == FormatIssuesWithImpact(found_ambiguities \o found_assumptions)
    IN  [ambiguity |-> analysed_ambiguity,
         assumptions |-> analysed_assumptions,
         readiness_score |-> RoundReadiness(readiness_score),
         readiness_level |-> ClassifyReadiness(readiness_score),
         issues |-> formatted,
         clarifying_questions |-> GenerateClarifyingQuestions(formatted, words)]

\* no call has returned yet
NoResult == [readiness_level |-> ""]

\* text.lower().strip(), whose hash keys the cache: the texts of the model have no blank
\* at either end, and hash is taken not to collide on them
CacheKey(words) == Lower(Join(words))

\* self.score_cache is a dict: its entries in insertion order.  An entry whose count is
\* n stands for n entries in a row, of n texts outside the model, cached at one time.
CacheEntry(text_hash, analysed, timestamp) ==
    [key |-> text_hash, result |-> analysed, timestamp |-> timestamp, count |-> 1]

\* the key that stands for the keys of the texts outside the model
OtherKey == "*"

\* dict()
EmptyCache == <<>>

RECURSIVE CacheSize(_)
\* len(self.score_cache)
CacheSize(cache) ==
    IF cache = <<>> THEN 0 ELSE Head(cache).count + CacheSize(Tail(cache))

\* text_hash in self.score_cache
CacheHas(cache, text_hash) == \E i \in 1..Len(cache) : cache[i].key = text_hash

\* self.score_cache[text_hash]
CacheGet(cache, text_hash) ==
    cache[CHOOSE i \in 1..Len(cache) : cache[i].key = text_hash]

\* self.score_cache[text_hash] = {...}: a key the dict holds keeps its place
CacheStore(cache, entry) ==
    IF CacheHas(cache, entry.key)
    THEN [i \in 1..Len(cache) |-> IF cache[i].key = entry.key THEN entry ELSE cache[i]]
    ELSE Append(cache, entry)

\* the same for n texts outside the model, none of them in the dict, at one time
CacheStoreOthers(cache, n, timestamp) ==
    IF /\ cache # <<>>
       /\ cache[Len(cache)].key = OtherKey
       /\ cache[Len(cache)].timestamp = timestamp
    THEN [cache EXCEPT ![Len(cache)].count = @ + n]
    ELSE Append(cache, [key |-> OtherKey, result |-> NoResult,
                        timestamp |-> timestamp, count |-> n])

\* an eviction that takes the entry inserted last
NewestIndex(cache) == Len(cache)

\* an eviction that takes, of the entries of the least timestamp, the one inserted last
LastOldestIndex(cache) ==
    CHOOSE i \in 1..Len(cache) :
        /\ \A j \in 1..Len(cache) : cache[i].timestamp <= cache[j].timestamp
        /\ \A j \in (i + 1)..Len(cache) : cache[j].timestamp > cache[i].timestamp

\* min(self.score_cache.keys(), key=timestamp): the first of the least in dict order
OldestIndex(cache) ==
    CHOOSE i \in 1..Len(cache) :
        /\ \A j \in 1..Len(cache) : cache[i].timestamp <= cache[j].timestamp
        /\ \A j \in 1..(i - 1) : cache[j].timestamp > cache[i].timestamp

\* del self.score_cache[key] for the key of entry i, the first of its run
CacheDelete(cache, i) ==
    IF cache[i].count > 1 THEN [cache EXCEPT ![i].count = @ - 1]
    ELSE SubSeq(cache, 1, i - 1) \o SubSeq(cache, i + 1, Len(cache))

\* del self.score_cache[oldest_key]
DeleteOldest(cache) == CacheDelete(cache, OldestIndex(cache))

\* a cache that is never cut
LimitCacheSizeOmitted(cache) == cache

\* "if len(self.score_cache) > 1000: ... del self.score_cache[oldest_key]"
LimitCacheSize(cache) ==
    IF CacheSize(cache) > CacheLimit THEN DeleteOldest(cache) ELSE cache

\* an entry that is valid up to and at the age of CacheTtl
IsFreshInclusive(entry, now) == now - entry.timestamp <= CacheTtl

\* "self.time.time() - cached_result.get('timestamp', 0) < 3600"
IsFresh(entry, now) == now - entry.timestamp < CacheTtl

-----------------------------------------------------------------------------
(* Values of the variables a specification does not use. *)

NoAmbiguityAnalysis ==
    [score |-> 0, confidence |-> "",
     components |-> [lexical |-> 0, testability |-> 0, references |-> 0]]

NoAssumptionAnalysis ==
    [score |-> 0,
     components |-> [environment |-> [count |-> 0, strength |-> ""],
                     data |-> [count |-> 0, strength |-> ""],
                     state |-> [count |-> 0, strength |-> ""]]]

NoAssumptionComponents == [environment |-> 0, data |-> 0, state |-> 0]

NoReadiness == [score |-> [num |-> 0, den |-> 1], rounded |-> 0, level |-> ""]

\* no analysis was kept
NoPrevious == [issues |-> <<>>, analysis |-> NoAmbiguityAnalysis]

\* no Doc was built
NoDoc == <<>>

IdleDetector == nlp = "en_core_web_sm" /\ doc = NoDoc

IdleAmbiguity ==
    /\ ambiguity_issues = <<>>
    /\ ambiguity_analysis = NoAmbiguityAnalysis

IdleAssumption ==
    /\ assumption_issues = <<>>
    /\ assumption_analysis = NoAssumptionAnalysis
    /\ assumption_components = NoAssumptionComponents

IdleReadiness ==
    /\ ambiguity_score = 0
    /\ assumption_score = 0
    /\ readiness = NoReadiness

IdleQuestions ==
    /\ formatted_issues = <<>>
    /\ questions = <<>>

IdleSuggestions ==
    /\ given_issues = <<>>
    /\ always_ask = TRUE
    /\ suggestions = <<>>

IdleAnalysis ==
    /\ result = NoResult
    /\ returned = <<>>

\* no thread is inside analyze_text_with_caching
NoCallers == <<>>

\* hash() is not followed: the normalised text stands for its hash
NoHash == <<>>

IdleCache ==
    /\ score_cache = EmptyCache
    /\ clock = 0
    /\ callers = NoCallers
    /\ hash_of = NoHash

IdleAppend ==
    /\ appended = ""
    /\ previous = NoPrevious

-----------------------------------------------------------------------------
(* calculate_ambiguity_score applied to issue lists and texts. *)

Repeat(x, n) == [i \in 1..n |-> x]

\* the subjective-term issues of an input list
SubjectiveLists ==
    LET terms == {"fast", "correct", "proper"}
    IN  {<<>>} \cup {<<SubjectiveIssue(a)>> : a \in terms}
               \cup {<<SubjectiveIssue(a), SubjectiveIssue(b)>> : a, b \in terms}

\* issue lists in the order detect_ambiguities builds them: subjective terms, weak
\* modality, undefined references, non-testable statements
AmbiguityIssueLists ==
    {s \o Repeat(WeakModalityIssue("should"), w)
       \o Repeat(UndefinedReferenceIssue("it"), u)
       \o Repeat(NonTestableIssue("handle it properly"), n) :
        s \in SubjectiveLists, w \in 0..MaxCount, u \in 0..MaxCount, n \in 0..MaxCount}

InitAmbiguity ==
    /\ pc = "input"
    /\ text \in {Filler(n) : n \in 0..MaxWords}
    /\ ambiguity_issues \in AmbiguityIssueLists
    /\ ambiguity_analysis = NoAmbiguityAnalysis
    /\ IdleDetector /\ IdleAssumption /\ IdleReadiness /\ IdleQuestions
    /\ IdleSuggestions /\ IdleAnalysis /\ IdleCache /\ IdleAppend

\* a call of calculate_ambiguity_score(issues, text)
ScoreAmbiguity ==
    /\ pc = "input"
    /\ ambiguity_analysis' = CalculateAmbiguityScore(ambiguity_issues, text)
    /\ pc' = "done"
    /\ UNCHANGED <<text, detectorVars, ambiguity_issues, assumptionVars, readinessVars,
                   questionVars, suggestionVars, analysisVars, cacheVars, appendVars>>

NextAmbiguity == ScoreAmbiguity

SpecAmbiguity == InitAmbiguity /\ [][NextAmbiguity]_vars

\* C22: for a non-empty issue list the confidence is HIGH iff the text has at least 10
\* words, the issues are of at least 2 distinct kinds and there is at most one issue for
\* two words; otherwise MEDIUM iff the text has at least 5 words; otherwise LOW.
C22_ConfidenceLabel ==
    (pc = "done" /\ ambiguity_issues # <<>>) =>
        LET word_count == WordCount(text)
            kinds == {ambiguity_issues[k].type : k \in 1..Len(ambiguity_issues)}
            high == /\ word_count >= 10
                    /\ \E a, b \in kinds : a # b
                    /\ Len(ambiguity_issues) * 2 <= word_count
        IN  /\ ambiguity_analysis.confidence \in {"HIGH", "MEDIUM", "LOW"}
            /\ ambiguity_analysis.confidence = "HIGH" <=> high
            /\ ambiguity_analysis.confidence = "MEDIUM" <=> (~high /\ word_count >= 5)
            /\ ambiguity_analysis.confidence = "LOW" <=> (~high /\ word_count < 5)

\* ten words and five issues of two kinds: the density is 0.5 and the label HIGH
C22_Witness ==
    /\ pc = "done"
    /\ WordCount(text) = 10
    /\ Len(ambiguity_issues) = 5
    /\ Cardinality(IssueTypes(ambiguity_issues)) = 2
    /\ ambiguity_analysis.confidence = "HIGH"

\* C1: every component score and the overall ambiguity score returned by
\* calculate_ambiguity_score lies in [0,100] (tenths: 0..1000), also when a
\* component's raw score is far above 80.
C1_AmbiguityScoresBounded ==
    pc = "done" =>
        /\ ambiguity_analysis.score \in 0..1000
        /\ ambiguity_analysis.components.lexical \in 0..1000
        /\ ambiguity_analysis.components.testability \in 0..1000
        /\ ambiguity_analysis.components.references \in 0..1000

\* C4: with no ambiguity issue the result is score 0.0, the three components 0.0
\* and confidence LOW.
C4_NoIssuesZeroAndLow ==
    (pc = "done" /\ ambiguity_issues = <<>>) =>
        /\ ambiguity_analysis.score = 0
        /\ ambiguity_analysis.components =
               [lexical |-> 0, testability |-> 0, references |-> 0]
        /\ ambiguity_analysis.confidence = "LOW"

-----------------------------------------------------------------------------
(* calculate_assumption_score applied to issue lists. *)

\* issue lists in the order detect_assumptions builds them: action issues, then the
\* environment issue, then the context issues
AssumptionIssueLists ==
    {Repeat(ActionIssue("delete", "record_exists"), b)
       \o Repeat(ActionIssue("delete", "user_logged_in"), c)
       \o Repeat(ActionIssue("delete", "permissions_granted"), d)
       \o Repeat(EnvironmentIssue, e) :
        b \in 0..MaxRepeat, c \in 0..MaxRepeat, d \in 0..MaxRepeat, e \in 0..MaxRepeat}

InitAssumption ==
    /\ pc = "input"
    /\ text = Filler(MaxWords)
    /\ assumption_issues \in AssumptionIssueLists
    /\ assumption_analysis = NoAssumptionAnalysis
    /\ assumption_components = NoAssumptionComponents
    /\ IdleDetector /\ IdleAmbiguity /\ IdleReadiness /\ IdleQuestions
    /\ IdleSuggestions /\ IdleAnalysis /\ IdleCache /\ IdleAppend

\* a call of calculate_assumption_score(issues, text)
ScoreAssumption ==
    /\ pc = "input"
    /\ IF assumption_issues = <<>>
       THEN /\ assumption_analysis' = CalculateAssumptionScore(assumption_issues, text)
            /\ assumption_components' = NoAssumptionComponents
       ELSE LET c == AssumptionComponents(assumption_issues)
            IN  /\ assumption_analysis' = AssumptionResult(assumption_issues, c)
                /\ assumption_components' =
                       [environment |-> c.environment.score, data |-> c.data.score,
                        state |-> c.state.score]
    /\ pc' = "done"
    /\ UNCHANGED <<text, detectorVars, assumption_issues, ambiguityVars, readinessVars,
                   questionVars, suggestionVars, analysisVars, cacheVars, appendVars>>

NextAssumption == ScoreAssumption

SpecAssumption == InitAssumption /\ [][NextAssumption]_vars

\* C3: every per-category score of _calculate_component_with_strength and the overall
\* assumption score lie in [0,100], however many issues a category holds.
C3_AssumptionScoresBounded ==
    pc = "done" =>
        /\ assumption_analysis.score \in 0..1000
        /\ assumption_components.environment \in 0..(100 * AssumptionDen)
        /\ assumption_components.data \in 0..(100 * AssumptionDen)
        /\ assumption_components.state \in 0..(100 * AssumptionDen)

\* a category so full that its compressed score reaches the clamp at 100
C3_Witness ==
    /\ pc = "done"
    /\ assumption_analysis.components.state.count = 2 * MaxRepeat
    /\ assumption_components.state = 100 * AssumptionDen

\* C5: a category has strength "NONE" iff its count is 0; with an empty issue list
\* the score is 0.0 and the three categories have count 0 and strength "NONE".
C5_NoneIffEmpty ==
    pc = "done" =>
        /\ \A c \in {assumption_analysis.components.environment,
                     assumption_analysis.components.data,
                     assumption_analysis.components.state} :
               (c.strength = "NONE") <=> (c.count = 0)
        /\ assumption_issues = <<>> =>
               /\ assumption_analysis.score = 0
               /\ \A c \in {assumption_analysis.components.environment,
                            assumption_analysis.components.data,
                            assumption_analysis.components.state} :
                      c.count = 0 /\ c.strength = "NONE"

\* a scored list that fills one category and leaves another empty
C5_Witness ==
    /\ pc = "done"
    /\ assumption_analysis.components.data.count > 0
    /\ assumption_analysis.components.data.strength = "WEAK"
    /\ assumption_analysis.components.state.count = 0
    /\ assumption_analysis.components.state.strength = "NONE"

-----------------------------------------------------------------------------
(* calculate_readiness_score and classify_readiness applied to score pairs. *)

\* the score arguments, in tenths: every ScoreStep-th value up to MaxScoreSteps steps
ScoreGrid == {ScoreStep * k : k \in 0..MaxScoreSteps}

\* word counts of the texts: empty, under 10, 10 to 100, over 100
ReadinessTextLengths == {0, 1, 9, 10, 100, 101}

InitReadiness ==
    /\ pc = "input"
    /\ text \in {Filler(n) : n \in ReadinessTextLengths}
    /\ ambiguity_score \in ScoreGrid
    /\ assumption_score \in ScoreGrid
    /\ readiness = NoReadiness
    /\ IdleDetector /\ IdleAmbiguity /\ IdleAssumption /\ IdleQuestions
    /\ IdleSuggestions /\ IdleAnalysis /\ IdleCache /\ IdleAppend

\* calculate_readiness_score(ambiguity_score, assumption_score, text), then
\* classify_readiness and round(readiness_score, 1) as analyze_text applies them
ScoreReadiness ==
    /\ pc = "input"
    /\ LET r == CalculateReadinessScore(ambiguity_score, assumption_score, text)
       IN  readiness' = [score |-> r, rounded |-> RoundReadiness(r),
                         level |-> ClassifyReadiness(r),
                         \* the locals of calculate_readiness_score when it returned
                         weights |-> ReadinessWeights(ambiguity_score, assumption_score),
                         complexity_factor |-> ComplexityFactor(text),
                         total_impact |-> TotalImpact(ambiguity_score, assumption_score)]
    /\ pc' = "done"
    /\ UNCHANGED <<text, detectorVars, ambiguity_score, assumption_score, ambiguityVars,
                   assumptionVars, questionVars, suggestionVars, analysisVars, cacheVars,
                   appendVars>>

NextReadiness == ScoreReadiness

SpecReadiness == InitReadiness /\ [][NextReadiness]_vars

\* C2: for every pair of non-negative scores and every text length class,
\* calculate_readiness_score returns a value in [0,95] (tenths: 0..950); neither the
\* 1.2 short-text factor nor the max(..., 10) / max(..., 15) safeguards leave it.
C2_ReadinessBounded ==
    pc = "done" =>
        /\ readiness.score.num >= 0
        /\ readiness.score.den > 0
        /\ ~FracGreater(readiness.score, 950)

\* a short text with no issue at all: 100 * 1.2 = 120 before the bounds, 95 after
C2_Witness ==
    /\ pc = "done"
    /\ ambiguity_score = 0 /\ assumption_score = 0
    /\ text # <<>> /\ WordCount(text) < 10
    /\ readiness.score = [num |-> 950, den |-> 1]

\* the base weight pair the specification gives for a score pair, in hundredths
C21_BasePair ==
    IF assumption_score > ambiguity_score THEN [ambiguity |-> 20, assumption |-> 80]
    ELSE IF ambiguity_score > 600 THEN [ambiguity |-> 70, assumption |-> 30]
    ELSE [ambiguity |-> 40, assumption |-> 60]

C6_ClassificationBoundaries ==
    pc = "done" =>
        /\ (ambiguity_score = 0 /\ assumption_score = 0) => readiness.level = "Ready"
        /\ (ambiguity_score \in 800..1000 /\ assumption_score \in 800..1000)
               => readiness.level = "High risk for automation"

\* a pair of high scores on a short text, classified
C6_Witness ==
    /\ pc = "done"
    /\ ambiguity_score \in 800..1000 /\ assumption_score \in 800..1000
    /\ ambiguity_score > assumption_score
    /\ WordCount(text) > 100
    /\ readiness.level = "High risk for automation"

-----------------------------------------------------------------------------
(* _generate_clarifying_questions applied to formatted issue lists. *)

\* formatted issues whose questions differ, in the order analyze_text lists them:
\* ambiguity issues first, assumption issues after them
QuestionIssueKinds ==
    FormatIssuesWithImpact(
        <<SubjectiveIssue("fast"), WeakModalityIssue("should"), UndefinedReferenceIssue("it"),
          NonTestableIssue("handle it properly"),
          ActionIssue("login", "user_exists"), ActionIssue("delete", "user_logged_in"),
          EnvironmentIssue>>)

RECURSIVE CopiesOfKinds(_, _)
\* copies[k] copies of kind k, for the kinds from k on
CopiesOfKinds(copies, k) ==
    IF k > Len(QuestionIssueKinds) THEN <<>>
    ELSE Repeat(QuestionIssueKinds[k], copies[k]) \o CopiesOfKinds(copies, k + 1)

\* the formatted lists handed in: every kind 0 to MaxCopies times
FormattedIssueLists ==
    {CopiesOfKinds(copies, 1) : copies \in [1..Len(QuestionIssueKinds) -> 0..MaxCopies]}

InitQuestions ==
    /\ pc = "input"
    /\ text = Filler(MaxWords)
    /\ formatted_issues \in FormattedIssueLists
    /\ questions = <<>>
    /\ IdleDetector /\ IdleAmbiguity /\ IdleAssumption /\ IdleReadiness
    /\ IdleSuggestions /\ IdleAnalysis /\ IdleCache /\ IdleAppend

\* a call of _generate_clarifying_questions(issues, text)
GenerateQuestions ==
    /\ pc = "input"
    /\ questions' = GenerateClarifyingQuestions(formatted_issues, text)
    /\ pc' = "done"
    /\ UNCHANGED <<text, detectorVars, formatted_issues, ambiguityVars, assumptionVars,
                   readinessVars, suggestionVars, analysisVars, cacheVars, appendVars>>

NextQuestions == GenerateQuestions

SpecQuestions == InitQuestions /\ [][NextQuestions]_vars

\* C7: the list _generate_clarifying_questions returns has at most 8 entries, no
\* string twice, and starts with the two standard questions in their order.
C7_QuestionsCappedDistinctStandardFirst ==
    pc = "done" =>
        /\ Len(questions) <= 8
        /\ \A i, j \in 1..Len(questions) : questions[i] = questions[j] => i = j
        /\ Len(questions) >= 2
        /\ questions[1] = "What are the exact preconditions required for this test?"
        /\ questions[2] = "What is the expected result and how should it be verified?"

\* a list with repeated issues of seven kinds: more distinct questions than fit
C7_Witness ==
    /\ pc = "done"
    /\ Len(formatted_issues) = MaxCopies * Len(QuestionIssueKinds)
    /\ Len(questions) = 8
    /\ questions[8] = "Should the user be pre-authenticated for this test?"

-----------------------------------------------------------------------------
(* generate_suggestions applied to issue lists and texts. *)

\* issues of kinds whose suggestions differ, ambiguity issues first
SuggestionIssueKinds ==
    <<SubjectiveIssue("fast"), WeakModalityIssue("should"), UndefinedReferenceIssue("it"),
      NonTestableIssue("handle it properly"),
      ActionIssue("delete", "record_exists"), EnvironmentIssue>>

RECURSIVE CopiesOfIssues(_, _)
\* copies[k] copies of kind k, for the kinds from k on
CopiesOfIssues(copies, k) ==
    IF k > Len(SuggestionIssueKinds) THEN <<>>
    ELSE Repeat(SuggestionIssueKinds[k], copies[k]) \o CopiesOfIssues(copies, k + 1)

\* the issue lists handed in: every kind 0 to MaxCopies times
SuggestionIssueLists ==
    {CopiesOfIssues(copies, 1) : copies \in [1..Len(SuggestionIssueKinds) -> 0..MaxCopies]}

\* the texts handed in: empty, with and without the words the contextual questions look for
SuggestionTexts ==
    {<<>>, <<"The", "system", "should", "be", "fast">>,
     <<"Click", "the", "save", "button", "and", "delete", "it">>}

InitSuggestions ==
    /\ pc = "input"
    /\ text \in SuggestionTexts
    /\ given_issues \in SuggestionIssueLists
    /\ always_ask \in BOOLEAN
    /\ suggestions = <<>>
    /\ IdleDetector /\ IdleAmbiguity /\ IdleAssumption /\ IdleReadiness /\ IdleQuestions
    /\ IdleAnalysis /\ IdleCache /\ IdleAppend

\* a call of generate_suggestions(issues, text, always_ask)
Suggest ==
    /\ pc = "input"
    /\ suggestions' = GenerateSuggestions(given_issues, Join(text), always_ask)
    /\ pc' = "done"
    /\ UNCHANGED <<text, given_issues, always_ask, detectorVars, ambiguityVars,
                   assumptionVars, readinessVars, questionVars, analysisVars, cacheVars,
                   appendVars>>

NextSuggestions == Suggest

SpecSuggestions == InitSuggestions /\ [][NextSuggestions]_vars

\* C8: the list generate_suggestions returns, with always_ask true or false, has at most
\* 8 entries and no string twice.
C8_SuggestionsCappedDistinct ==
    pc = "done" =>
        /\ Len(suggestions) <= 8
        /\ \A i, j \in 1..Len(suggestions) : suggestions[i] = suggestions[j] => i = j

-----------------------------------------------------------------------------
(* analyze_text and analyze_text_with_caching called in any order. *)

\* the texts analysed; the first two differ in case only and share a cache key
AnalyzedTexts ==
    {<<"The", "login", "should", "be", "fast">>,
     <<"the", "login", "should", "be", "fast">>,
     <<"Click", "save", "and", "it", "should", "handle", "errors", "properly">>}

\* analyze_text on every text of the model, by either pipeline
AnalysisTable == [p \in Pipelines |-> [t \in AnalyzedTexts |-> AnalyzeText(p, t)]]

InitAnalyze ==
    /\ pc = "ready"
    /\ text = <<>>
    /\ nlp \in Pipelines /\ doc = NoDoc
    /\ result = NoResult
    /\ returned = [t \in AnalyzedTexts |-> {}]
    /\ score_cache = EmptyCache
    /\ clock = 0
    /\ callers = NoCallers
    /\ hash_of = NoHash
    /\ IdleAmbiguity /\ IdleAssumption /\ IdleReadiness /\ IdleQuestions
    /\ IdleSuggestions /\ IdleAppend

\* a call of analyze_text(t)
CallAnalyzeText(t) ==
    /\ text' = t
    /\ result' = AnalysisTable[nlp][t]
    /\ returned' = [returned EXCEPT ![t] = @ \cup {result'}]
    /\ pc' = "analyze_text"
    /\ UNCHANGED <<detectorVars, ambiguityVars, assumptionVars, readinessVars,
                   questionVars, suggestionVars, cacheVars, appendVars>>

\* a call of analyze_text_with_caching(t); pc tells which return statement ended it
CallAnalyzeTextWithCaching(t) ==
    LET text_hash == CacheKey(t)
    IN  /\ text' = t
        /\ IF /\ CacheHas(score_cache, text_hash)
              /\ IsFresh(CacheGet(score_cache, text_hash), clock)
           THEN /\ result' = CacheGet(score_cache, text_hash).result
                /\ pc' = "returned_cached"
                /\ UNCHANGED <<returned, score_cache>>
           ELSE LET analysed == AnalysisTable[nlp][t]
                IN  /\ result' = analysed
                    /\ returned' = [returned EXCEPT ![t] = @ \cup {analysed}]
                    /\ score_cache' =
                           LimitCacheSize(CacheStore(score_cache,
                                                     CacheEntry(text_hash, analysed, clock)))
                    /\ pc' = "returned_analysed"
        /\ UNCHANGED <<clock, callers, hash_of, detectorVars, ambiguityVars, assumptionVars,
                       readinessVars, questionVars, suggestionVars, appendVars>>

\* calls of analyze_text_with_caching on n texts outside the model, not cached before,
\* while the cache has room for them all, so that none of the calls evicts: up to the
\* limit or to one entry less.  Their results are not followed.
FillCache ==
    \E n \in {CacheLimit - CacheSize(score_cache) - 1, CacheLimit - CacheSize(score_cache)} :
        /\ n >= 1
        /\ score_cache' = CacheStoreOthers(score_cache, n, clock)
        /\ pc' = "other_text"
        /\ UNCHANGED <<text, clock, callers, hash_of, detectorVars, ambiguityVars,
                       assumptionVars, readinessVars, questionVars, suggestionVars,
                       analysisVars, appendVars>>

\* time passes between two calls
Tick ==
    /\ clock < MaxTicks * TickSeconds
    /\ clock' = clock + TickSeconds
    /\ pc' = "ready"
    /\ UNCHANGED <<text, score_cache, callers, hash_of, detectorVars, ambiguityVars,
                   assumptionVars, readinessVars, questionVars, suggestionVars,
                   analysisVars, appendVars>>

NextAnalyze ==
    \/ \E t \in AnalyzedTexts : CallAnalyzeText(t)
    \/ \E t \in AnalyzedTexts : CallAnalyzeTextWithCaching(t)
    \/ FillCache
    \/ Tick

SpecAnalyze == InitAnalyze /\ [][NextAnalyze]_vars

C14_CacheAtMostLimit == CacheSize(score_cache) <= CacheLimit

\* a full cache after a call that stored a new entry, two of the entries of texts outside
\* the model that filled it having been evicted
C14_Witness ==
    /\ pc = "returned_analysed"
    /\ CacheSize(score_cache) = CacheLimit
    /\ score_cache[1].key = OtherKey
    /\ score_cache[1].count = CacheLimit - 2

\* C15: a call of analyze_text_with_caching whose key has an entry made less than 3600
\* seconds before returns the stored result without analysing again and leaves the whole
\* cache as it was, timestamps included; a call whose entry is 3600 seconds old or older
\* analyses again and replaces the result and the timestamp of that entry.
C15_HitKeepsCacheExpiryReplaces ==
    [][pc' \in {"returned_cached", "returned_analysed"} =>
           LET text_hash == CacheKey(text')
           IN  CacheHas(score_cache, text_hash) =>
                   LET entry == CacheGet(score_cache, text_hash)
                   IN  IF clock - entry.timestamp < 3600
                       THEN /\ pc' = "returned_cached"
                            /\ result' = entry.result
                            /\ returned' = returned
                            /\ score_cache' = score_cache
                       ELSE /\ pc' = "returned_analysed"
                            /\ result' = AnalysisTable[nlp][text']
                            /\ CacheHas(score_cache', text_hash)
                            /\ CacheGet(score_cache', text_hash).result = result'
                            /\ CacheGet(score_cache', text_hash).timestamp = clock
                            /\ CacheSize(score_cache') = CacheSize(score_cache)]_vars

\* a hit on an entry made earlier, by a text that differs in case from the text analysed
C15_Witness ==
    /\ pc = "returned_cached"
    /\ CacheHas(score_cache, CacheKey(text))
    /\ CacheGet(score_cache, CacheKey(text)).timestamp < clock
    /\ returned[text] = {}
    /\ result = CacheGet(score_cache, CacheKey(text)).result

RECURSIVE CountAt(_, _)
\* the number of entries of a cache that carry a timestamp
CountAt(cache, timestamp) ==
    IF cache = <<>> THEN 0
    ELSE (IF Head(cache).timestamp = timestamp THEN Head(cache).count ELSE 0)
         + CountAt(Tail(cache), timestamp)

\* C16: when storing a result makes the cache exceed 1000 entries,
\* analyze_text_with_caching removes exactly one entry, one of the least timestamp among
\* all entries; it removes none when the size stays at or below 1000.
C16_EvictsOneOldestOnOverflow ==
    [][pc' = "returned_analysed" =>
           LET stored == CacheStore(score_cache,
                                    CacheEntry(CacheKey(text'), result', clock))
               stamps == {stored[i].timestamp : i \in 1..Len(stored)}
           IN  IF CacheSize(stored) > 1000
               THEN /\ CacheSize(score_cache') = CacheSize(stored) - 1
                    /\ \E least \in stamps :
                           /\ \A other \in stamps : least <= other
                           /\ CountAt(score_cache', least) = CountAt(stored, least) - 1
                           /\ \A other \in stamps \ {least} :
                                  CountAt(score_cache', other) = CountAt(stored, other)
                    /\ \A j \in 1..Len(score_cache') :
                           score_cache'[j].key # OtherKey => InList(score_cache'[j], stored)
               ELSE score_cache' = stored]_vars

\* a full cache after a call whose entry made it overflow: entries of the oldest texts
\* were evicted, the entries stored later are all kept
C16_Witness ==
    /\ pc = "returned_analysed"
    /\ CacheSize(score_cache) = CacheLimit
    /\ Len(score_cache) = 3
    /\ score_cache[1].key = OtherKey
    /\ score_cache[1].count < CacheLimit - 1
    /\ \A i \in 2..3 : /\ score_cache[i].key # OtherKey
                       /\ score_cache[i].timestamp > score_cache[1].timestamp

\* C28: the entry a call of analyze_text_with_caching stores is not the entry that call
\* evicts, also when entries share the least timestamp: when the call returns what it
\* analysed, the cache holds that result under the key of the text.
C28_StoredEntrySurvivesEviction ==
    pc = "returned_analysed" =>
        /\ CacheHas(score_cache, CacheKey(text))
        /\ CacheGet(score_cache, CacheKey(text)).result = result
        /\ CacheGet(score_cache, CacheKey(text)).timestamp = clock

\* a call whose entry made the cache overflow while every entry, the new one too, had
\* the same timestamp: an entry of another text went, the new entry is the last one
C28_Witness ==
    /\ pc = "returned_analysed"
    /\ Len(score_cache) = 3
    /\ score_cache[1].key = OtherKey
    /\ score_cache[1].count = CacheLimit - 2
    /\ \A i \in 1..3 : score_cache[i].timestamp = clock
    /\ score_cache[3].key = CacheKey(text)
    /\ score_cache[3].result = result

-----------------------------------------------------------------------------
(* A subjective term appended to a text between two ambiguity analyses. *)

\* the words of the texts: a weak-modality term, a subjective term, a number, a plain word
AppendVocabulary == {"should", "stable", "5", "login"}

RECURSIVE TextsOfLength(_)
\* the texts of n words over AppendVocabulary
TextsOfLength(n) ==
    IF n = 0 THEN {<<>>}
    ELSE {Append(t, w) : t \in TextsOfLength(n - 1), w \in AppendVocabulary}

AppendTexts == UNION {TextsOfLength(n) : n \in 1..MaxTextWords}

\* the subjective terms appended
AppendedTerms == {"stable", "correct", "secure"}

InitAppend ==
    /\ pc = "input"
    /\ text \in AppendTexts
    /\ nlp \in Pipelines /\ doc = NoDoc
    /\ ambiguity_issues = <<>>
    /\ ambiguity_analysis = NoAmbiguityAnalysis
    /\ appended = ""
    /\ previous = NoPrevious
    /\ IdleAssumption /\ IdleReadiness /\ IdleQuestions
    /\ IdleSuggestions /\ IdleAnalysis /\ IdleCache

\* detect_ambiguities(text), then calculate_ambiguity_score(issues, text)
DetectAndScore ==
    /\ pc = "input"
    /\ ambiguity_issues' = DetectAmbiguities(nlp, text)
    /\ ambiguity_analysis' = CalculateAmbiguityScore(ambiguity_issues', text)
    /\ pc' = "scored"
    /\ UNCHANGED <<text, detectorVars, assumptionVars, readinessVars, questionVars,
                   suggestionVars, analysisVars, cacheVars, appendVars>>

\* the caller appends a subjective term the text does not hold and analyses again
AppendTerm(term) ==
    /\ pc = "scored"
    /\ ~InList(term, Tokens(text))
    /\ appended' = term
    /\ previous' = [issues |-> ambiguity_issues, analysis |-> ambiguity_analysis]
    /\ text' = Append(text, term)
    /\ ambiguity_issues' = DetectAmbiguities(nlp, text')
    /\ ambiguity_analysis' = CalculateAmbiguityScore(ambiguity_issues', text')
    /\ pc' = "appended"
    /\ UNCHANGED <<detectorVars, assumptionVars, readinessVars, questionVars,
                   suggestionVars, analysisVars, cacheVars>>

NextAppend ==
    \/ DetectAndScore
    \/ \E term \in AppendedTerms : AppendTerm(term)

SpecAppend == InitAppend /\ [][NextAppend]_vars

\* C10: appending one more distinct subjective term to a text that yields at least one
\* lexical issue never lowers the lexical component score, also when the appended term
\* is suppressed by quantitative context and adds a word but no issue.
C10_AppendNeverLowersLexical ==
    (pc = "appended" /\ LexicalIssues(previous.issues) # <<>>) =>
        ambiguity_analysis.components.lexical >= previous.analysis.components.lexical

-----------------------------------------------------------------------------
(* detect_ambiguities and calculate_ambiguity_score on texts of every kind of term. *)

\* the words of the texts: weak-modality terms in either case, a subjective term, a
\* number, a reference, and the two ends of a non-testable pattern
DetectVocabulary == {"should", "Might", "fast", "5", "it", "handle", "properly"}

RECURSIVE DetectTextsOfLength(_)
\* the texts of n words over DetectVocabulary
DetectTextsOfLength(n) ==
    IF n = 0 THEN {<<>>}
    ELSE {Append(t, w) : t \in DetectTextsOfLength(n - 1), w \in DetectVocabulary}

DetectTexts == UNION {DetectTextsOfLength(n) : n \in 0..MaxDetectWords}

InitDetect ==
    /\ pc = "input"
    /\ text \in DetectTexts
    /\ nlp \in Pipelines /\ doc = NoDoc
    /\ IdleAmbiguity /\ IdleAssumption /\ IdleReadiness /\ IdleQuestions
    /\ IdleSuggestions /\ IdleAnalysis /\ IdleCache /\ IdleAppend

NextDetect == DetectAndScore

SpecDetect == InitDetect /\ [][NextDetect]_vars

\* the positions of the issues of a kind in a list
IssuesOfType(issues, type) == {k \in 1..Len(issues) : issues[k].type = type}

\* the tokens of the text that are weak-modality terms
WeakModalityTokens == {i \in 1..Len(text) : Lower(text[i]) \in weak_modality_terms}

\* C11: every token whose lower-case text is a weak-modality term gives exactly one
\* "Weak modality" issue, whatever surrounds it; each such issue is counted in the lexical
\* and in the testability partition, so both component scores are above 0; an issue of
\* any other kind is counted in exactly one partition.
C11_WeakModalityInBothPartitions ==
    pc = "scored" =>
        LET weak == IssuesOfType(ambiguity_issues, "Weak modality")
            subjective == IssuesOfType(ambiguity_issues, "Subjective term")
            non_testable == IssuesOfType(ambiguity_issues, "Non-testable statement")
            undefined == IssuesOfType(ambiguity_issues, "Undefined reference")
        IN  /\ Cardinality(weak) = Cardinality(WeakModalityTokens)
            /\ \A i \in WeakModalityTokens :
                   \E k \in weak : ambiguity_issues[k] = WeakModalityIssue(Lower(text[i]))
            /\ Len(LexicalIssues(ambiguity_issues))
                   = Cardinality(subjective) + Cardinality(weak)
            /\ Len(TestabilityIssues(ambiguity_issues))
                   = Cardinality(non_testable) + Cardinality(weak)
            /\ Len(ReferenceIssues(ambiguity_issues)) = Cardinality(undefined)
            /\ \A k \in weak :
                   /\ InList(ambiguity_issues[k], LexicalIssues(ambiguity_issues))
                   /\ InList(ambiguity_issues[k], TestabilityIssues(ambiguity_issues))
            /\ weak # {} =>
                   /\ ambiguity_analysis.components.lexical > 0
                   /\ ambiguity_analysis.components.testability > 0

\* two weak-modality tokens, one of them in upper case, in a text with a number
C11_Witness ==
    /\ pc = "scored"
    /\ Cardinality(WeakModalityTokens) = 2
    /\ \E i \in 1..Len(text) : text[i] = "5"
    /\ \E i \in 1..Len(text) : text[i] = "Might"
    /\ IssuesOfType(ambiguity_issues, "Weak modality") # {}
    /\ ambiguity_analysis.components.lexical > 0
    /\ ambiguity_analysis.components.testability > 0

-----------------------------------------------------------------------------
(* The two detectors on one text: the first two statements of analyze_text. *)

RECURSIVE SplitWords(_, _)
\* s.split() continued with the word begun
SplitWords(s, word) ==
    IF s = "" THEN (IF word = "" THEN <<>> ELSE <<word>>)
    ELSE IF IsSpace(Head(s))
         THEN (IF word = "" THEN <<>> ELSE <<word>>) \o SplitWords(Tail(s), "")
         ELSE SplitWords(Tail(s), word \o Head(s))

\* s.split()
Split(s) == SplitWords(s, "")

\* the words that follow the action phrase: indicator phrases of record_exists and
\* permissions_granted, and terms of the ambiguity vocabularies
IssueVocabulary == {"exists", "permission", "should", "fast", "it", "properly"}

RECURSIVE IssueTextsOfLength(_)
IssueTextsOfLength(n) ==
    IF n = 0 THEN {<<>>}
    ELSE {Append(t, w) : t \in IssueTextsOfLength(n - 1), w \in IssueVocabulary}

\* no action phrase, or the phrase of any row of self.action_patterns
ActionPhrases == {<<>>} \cup {Split(action_patterns[k].key) : k \in 1..Len(action_patterns)}

\* the texts: an action phrase or none, then up to MaxIssueWords words
IssueTexts ==
    {phrase \o rest : phrase \in ActionPhrases,
                      rest \in UNION {IssueTextsOfLength(n) : n \in 0..MaxIssueWords}}

InitIssues ==
    /\ pc = "input"
    /\ text \in IssueTexts
    /\ nlp \in Pipelines /\ doc = NoDoc
    /\ IdleAmbiguity /\ IdleAssumption /\ IdleReadiness /\ IdleQuestions
    /\ IdleSuggestions /\ IdleAnalysis /\ IdleCache /\ IdleAppend

\* ambiguity_issues = detect_ambiguities(text); assumption_issues = detect_assumptions(text)
DetectIssues ==
    /\ pc = "input"
    /\ ambiguity_issues' = DetectAmbiguities(nlp, text)
    /\ assumption_issues' = DetectAssumptions(Join(text))
    /\ pc' = "detected"
    /\ UNCHANGED <<text, detectorVars, ambiguity_analysis, assumption_analysis,
                   assumption_components, readinessVars, questionVars, suggestionVars,
                   analysisVars, cacheVars, appendVars>>

NextIssues == DetectIssues

SpecIssues == InitIssues /\ [][NextIssues]_vars

\* the pairs (row of self.action_patterns, position of a key in the row) whose phrase is
\* in the lower-cased text and whose key has no indicator phrase in it
ImplicitPairs(text_lower) ==
    {p \in (1..Len(action_patterns)) \X (1..3) :
        /\ p[2] <= Len(action_patterns[p[1]].value)
        /\ Contains(text_lower, action_patterns[p[1]].key)
        /\ \A i \in 1..Len(explicit_indicators) :
               explicit_indicators[i].key = action_patterns[p[1]].value[p[2]] =>
                   \A j \in 1..Len(explicit_indicators[i].value) :
                       ~Contains(text_lower, explicit_indicators[i].value[j])}

\* the place of a pair among the pairs, in table order and then key order
PairRank(pairs, p) ==
    Cardinality({q \in pairs : q[1] < p[1] \/ (q[1] = p[1] /\ q[2] <= p[2])})

\* C12: _detect_action_assumptions emits exactly one "Action assumption" issue for every
\* pair (action phrase, assumption key) whose phrase is in the lower-cased text and none
\* of whose indicator phrases is, none for any other pair, in table order and key order;
\* so a text with "delete" and no indicator of record_exists or permissions_granted has
\* a Data issue and a State issue of "delete".
C12_ActionIssuesPerImplicitPair ==
    pc = "detected" =>
        LET text_lower == Lower(Join(text))
            pairs == ImplicitPairs(text_lower)
            action_issues ==
                SelectSeq(assumption_issues, LAMBDA i : i.type = "Action assumption")
        IN  /\ Len(action_issues) = Cardinality(pairs)
            /\ SubSeq(assumption_issues, 1, Len(action_issues)) = action_issues
            /\ \A p \in pairs :
                   action_issues[PairRank(pairs, p)]
                       = ActionIssue(action_patterns[p[1]].key,
                                     action_patterns[p[1]].value[p[2]])
            /\ (/\ Contains(text_lower, "delete")
                /\ ~ContainsAny(text_lower, <<"exists", "available", "present">>)
                /\ ~ContainsAny(text_lower, <<"permission", "authorized", "access granted">>))
               => /\ \E k \in 1..Len(action_issues) :
                         /\ action_issues[k].text = "delete"
                         /\ action_issues[k].category = "Data"
                         /\ action_issues[k] = ActionIssue("delete", "record_exists")
                  /\ \E k \in 1..Len(action_issues) :
                         /\ action_issues[k].text = "delete"
                         /\ action_issues[k].category = "State"
                         /\ action_issues[k] = ActionIssue("delete", "permissions_granted")

\* "delete" with the indicator of one of its keys: two issues of "delete", none of them
\* for record_exists
C12_Witness ==
    /\ pc = "detected"
    /\ text = <<"delete", "exists", "it">>
    /\ Len(SelectSeq(assumption_issues, LAMBDA i : i.text = "delete")) = 2
    /\ InList(ActionIssue("delete", "permissions_granted"), assumption_issues)
    /\ ~InList(ActionIssue("delete", "record_exists"), assumption_issues)

\* C13: every issue detect_assumptions returns has a category among Environment, Data and
\* State (never the fallback "Unknown": every assumption key of the action table is in
\* the category table) and a kind among the three assumption kinds; every issue
\* detect_ambiguities returns has a kind among the four ambiguity kinds.
C13_ClosedCategoriesAndKinds ==
    /\ \A r \in 1..Len(action_patterns) : \A j \in 1..Len(action_patterns[r].value) :
           \E c \in 1..Len(category_mapping) :
               category_mapping[c].key = action_patterns[r].value[j]
    /\ pc = "detected" =>
           /\ \A k \in 1..Len(assumption_issues) :
                  /\ assumption_issues[k].category \in {"Environment", "Data", "State"}
                  /\ assumption_issues[k].type \in
                         {"Action assumption", "Environment assumption",
                          "Context assumption"}
           /\ \A k \in 1..Len(ambiguity_issues) :
                  ambiguity_issues[k].type \in
                      {"Subjective term", "Weak modality", "Undefined reference",
                       "Non-testable statement"}

\* an action whose key has no indicator phrases and is named only in the category table,
\* with ambiguity issues of two kinds
C13_Witness ==
    /\ pc = "detected"
    /\ InList(ActionIssue("api", "api_access_configured"), assumption_issues)
    /\ \E k \in 1..Len(assumption_issues) : assumption_issues[k].category = "Environment"
    /\ InList(WeakModalityIssue("should"), ambiguity_issues)
    /\ InList(UndefinedReferenceIssue("it"), ambiguity_issues)

-----------------------------------------------------------------------------
(* Threads that call analyze_text_with_caching on one scorer.  The method    *)
(* takes no lock; a thread can be switched between any two of its accesses   *)
(* to self.score_cache.                                                      *)

Callers == 1..NumCallers

\* no entry read, no oldest key found
NoEntry == [key |-> "", result |-> NoResult, timestamp |-> 0, count |-> 0]

\* a thread outside the method
IdleCaller == [pc |-> "idle", text |-> <<>>, cached_result |-> NoEntry, seen |-> <<>>,
               oldest_key |-> NoEntry]

\* the caches the threads can find: empty, or filled by earlier calls up to the limit or
\* to one entry less
InitialCaches ==
    {EmptyCache, CacheStoreOthers(EmptyCache, CacheLimit - 1, 0),
     CacheStoreOthers(EmptyCache, CacheLimit, 0)}

InitConcurrent ==
    /\ pc = "ready"
    /\ text = <<>>
    /\ nlp \in Pipelines /\ doc = NoDoc
    /\ score_cache \in InitialCaches
    /\ clock = 0
    /\ callers = [c \in Callers |-> IdleCaller]
    /\ hash_of = NoHash
    /\ IdleAmbiguity /\ IdleAssumption /\ IdleReadiness /\ IdleQuestions
    /\ IdleSuggestions /\ IdleAnalysis /\ IdleAppend

\* what a step of a thread leaves alone, the cache apart
CallerFrame ==
    UNCHANGED <<pc, text, clock, hash_of, detectorVars, ambiguityVars, assumptionVars,
                readinessVars, questionVars, suggestionVars, analysisVars, appendVars>>

\* thread c calls analyze_text_with_caching(t): "if text_hash in self.score_cache"
Lookup(c, t) ==
    /\ callers[c].pc = "idle"
    /\ callers' = [callers EXCEPT ![c] =
           [IdleCaller EXCEPT !.text = t,
                              !.pc = IF CacheHas(score_cache, CacheKey(t))
                                     THEN "read" ELSE "store"]]
    /\ UNCHANGED score_cache
    /\ CallerFrame

\* "cached_result = self.score_cache[text_hash]", a KeyError when the key is gone, and the
\* test of the age of the entry read
Read(c) ==
    /\ callers[c].pc = "read"
    /\ LET text_hash == CacheKey(callers[c].text)
       IN  IF ~CacheHas(score_cache, text_hash)
           THEN callers' = [callers EXCEPT ![c].pc = "failed"]
           ELSE LET entry == CacheGet(score_cache, text_hash)
                IN  callers' = [callers EXCEPT
                        ![c].cached_result = entry,
                        ![c].pc = IF IsFresh(entry, clock) THEN "returned" ELSE "store"]
    /\ UNCHANGED score_cache
    /\ CallerFrame

\* "result = self.analyze_text(text)" and "self.score_cache[text_hash] = {...}": the entry
\* is built whole and stored by one assignment
Store(c) ==
    /\ callers[c].pc = "store"
    /\ score_cache' =
           CacheStore(score_cache,
                      CacheEntry(CacheKey(callers[c].text),
                                 AnalysisTable[nlp][callers[c].text], clock))
    /\ callers' = [callers EXCEPT ![c].pc = "check"]
    /\ CallerFrame

\* "if len(self.score_cache) > 1000"
CheckSize(c) ==
    /\ callers[c].pc = "check"
    /\ callers' = [callers EXCEPT
           ![c].pc = IF CacheSize(score_cache) > CacheLimit THEN "scan" ELSE "returned"]
    /\ UNCHANGED score_cache
    /\ CallerFrame

\* the keys of a dict, in order
KeysOf(cache) == [i \in 1..Len(cache) |-> [key |-> cache[i].key, count |-> cache[i].count]]

\* min(self.score_cache.keys(), ...) begins to iterate over the keys
BeginScan(c) ==
    /\ callers[c].pc = "scan"
    /\ callers' = [callers EXCEPT ![c].seen = KeysOf(score_cache),
                                  ![c].pc = "scanning"]
    /\ UNCHANGED score_cache
    /\ CallerFrame

\* min(...) ends with the first key of the least timestamp.  When the keys of the dict
\* changed during the iteration, it can also end with a RuntimeError ("dictionary changed
\* size during iteration", "dictionary keys changed during iteration"), or with a KeyError
\* of the key function for a key that is gone.
EndScan(c) ==
    /\ callers[c].pc = "scanning"
    /\ \/ callers' = [callers EXCEPT
               ![c].oldest_key = score_cache[OldestIndex(score_cache)],
               ![c].pc = "delete"]
       \/ /\ KeysOf(score_cache) # callers[c].seen
          /\ callers' = [callers EXCEPT ![c].pc = "failed"]
    /\ UNCHANGED score_cache
    /\ CallerFrame

\* the entries del self.score_cache[oldest_key] can delete: the one of the key found by
\* the scan, if the dict still holds that key
HeldAt(cache, oldest) ==
    {i \in 1..Len(cache) :
        /\ cache[i].key = oldest.key
        /\ oldest.key = OtherKey =>
               (cache[i].timestamp = oldest.timestamp /\ cache[i].count = oldest.count)}

\* "del self.score_cache[oldest_key]", a KeyError when the key is gone
Delete(c) ==
    /\ callers[c].pc = "delete"
    /\ LET held == HeldAt(score_cache, callers[c].oldest_key)
       IN  IF held = {}
           THEN /\ callers' = [callers EXCEPT ![c].pc = "failed"]
                /\ UNCHANGED score_cache
           ELSE /\ score_cache' = CacheDelete(score_cache, CHOOSE i \in held : TRUE)
                /\ callers' = [callers EXCEPT ![c].pc = "returned"]
    /\ CallerFrame

\* the call of thread c has returned; the thread can call again
Leave(c) ==
    /\ callers[c].pc = "returned"
    /\ callers' = [callers EXCEPT ![c] = IdleCaller]
    /\ UNCHANGED score_cache
    /\ CallerFrame

NextConcurrent ==
    \/ \E c \in Callers, t \in AnalyzedTexts : Lookup(c, t)
    \/ \E c \in Callers : Read(c)
    \/ \E c \in Callers : Store(c)
    \/ \E c \in Callers : CheckSize(c)
    \/ \E c \in Callers : BeginScan(c)
    \/ \E c \in Callers : EndScan(c)
    \/ \E c \in Callers : Delete(c)
    \/ \E c \in Callers : Leave(c)
    \/ Tick

SpecConcurrent == InitConcurrent /\ [][NextConcurrent]_vars

\* C17: when several threads run analyze_text_with_caching on one scorer, under every
\* interleaving no thread reads a cache entry that lacks its result or its timestamp, and
\* no thread fails because another one changed the cache between its lookup and its read,
\* or between its size check, its scan for the least timestamp and its delete.
C17_ConcurrentCallersNeverFail ==
    \A c \in DOMAIN callers :
        /\ callers[c].cached_result # NoEntry =>
               /\ {"result", "timestamp"} \subseteq DOMAIN callers[c].cached_result
               /\ callers[c].cached_result.result # NoResult
        /\ callers[c].pc # "failed"

-----------------------------------------------------------------------------
(* OptimizedRequirementScorer.get_score_breakdown. *)

\* the types between whose values Python defines < and >
NumberTypes == {"int", "float"}

\* a dict and a float as values that carry their type
PyDict(fields) == [type |-> "dict", value |-> fields]
PyFloat(x) == [type |-> "float", value |-> x]

\* a call that raised, and a call that returned
Raised(exception) == [raised |-> exception]
Returned(value) == [raised |-> "", value |-> value]

\* calculate_readiness_score(ambiguity_score, assumption_score) on values of any type:
\* its first statement, "if assumption_score > ambiguity_score", raises TypeError unless
\* both are numbers; on numbers it is CalculateReadinessScore with text = ""
CallCalculateReadinessScore(amb, asm) ==
    IF ~(asm.type \in NumberTypes /\ amb.type \in NumberTypes)
    THEN Raised("TypeError")
    ELSE Returned(PyFloat(CalculateReadinessScore(amb.value, asm.value, <<>>)))

\* get_score_breakdown(text): the detectors' scorers are called without the text and
\* what they return, a dict each, is handed to calculate_readiness_score as it is
GetScoreBreakdown(pipeline, words) ==
    LET found_ambiguities == DetectAmbiguities(pipeline, words)
        found_assumptions == DetectAssumptions(Join(words))
        scored_ambiguity == PyDict(CalculateAmbiguityScore(found_ambiguities, <<>>))
        scored_assumptions == PyDict(CalculateAssumptionScore(found_assumptions, <<>>))
        readiness_score == CallCalculateReadinessScore(scored_ambiguity, scored_assumptions)
    IN  IF readiness_score.raised # ""
        THEN readiness_score
        ELSE Returned(
                [ambiguity |-> [score |-> scored_ambiguity.value,
                                issues_count |-> Len(found_ambiguities)],
                 assumptions |-> [score |-> scored_assumptions.value,
                                  issues_count |-> Len(found_assumptions)],
                 readiness |-> [score |-> RoundReadiness(readiness_score.value.value),
                                level |-> ClassifyReadiness(readiness_score.value.value)]])

InitBreakdown ==
    /\ pc = "input"
    /\ text \in IssueTexts
    /\ nlp \in Pipelines /\ doc = NoDoc
    /\ IdleAmbiguity /\ IdleAssumption /\ IdleReadiness /\ IdleQuestions
    /\ IdleSuggestions /\ IdleAnalysis /\ IdleCache /\ IdleAppend

\* the caller asks for the breakdown of the text
CallGetScoreBreakdown ==
    /\ pc = "input"
    /\ result' = GetScoreBreakdown(nlp, text)
    /\ pc' = IF result'.raised = "" THEN "breakdown" ELSE "raised"
    /\ UNCHANGED <<text, detectorVars, ambiguityVars, assumptionVars, readinessVars,
                   questionVars, suggestionVars, returned, cacheVars, appendVars>>

NextBreakdown == CallGetScoreBreakdown

SpecBreakdown == InitBreakdown /\ [][NextBreakdown]_vars

\* the values of ReadinessLevel
ReadinessLevelValues == {"Ready", "Needs clarification", "High risk for automation"}

\* C18: for every text, get_score_breakdown completes without raising and returns a
\* breakdown whose readiness score lies in [0, 95] and whose level is one of the three
\* readiness levels.
C18_BreakdownCompletes ==
    pc # "input" =>
        /\ result.raised = ""
        /\ result.value.readiness.score \in 0..950
        /\ result.value.readiness.level \in ReadinessLevelValues

-----------------------------------------------------------------------------
(* _find_char_position and the spans of the issues built from it. *)

\* an int, and None, as values that carry their type
PyInt(n) == [type |-> "int", value |-> n]
PyNone == [type |-> "NoneType"]

\* a token of a Doc: token.text and token.idx
Token(token_text, token_idx) == [text |-> token_text, idx |-> token_idx]

\* self.nlp(s) for the str of the words: one token a word, at the offset of the word
DocOf(words) == [i \in 1..Len(words) |-> Token(words[i], TokenIdx(words, i))]

\* s.find(sub, start) for a start >= 0: the least offset at or after start at which sub
\* occurs, -1 when there is none
Find(s, sub, start) ==
    LET found == {p \in start..(Len(s) - Len(sub)) : StartsAt(s, p + 1, sub)}
    IN  IF found = {} THEN -1
        ELSE CHOOSE p \in found : \A q \in found : p <= q

\* _find_char_position(original_text, token_text, token_idx): str.find does not raise on
\* a str and an int, so the except branch that returns None is not taken
FindCharPosition(original_text, token_text, token_idx) ==
    PyInt(Find(Lower(original_text), token_text, token_idx))

\* "start_char + len(token.text) if start_char is not None else None"
EndChar(start_char, token_text) ==
    IF start_char.type # "NoneType" THEN PyInt(start_char.value + Len(token_text))
    ELSE PyNone

\* AmbiguityIssue(..., start_char=start_char, end_char=end_char) for a token
SpannedIssue(type, message, original_text, token) ==
    LET start_char == FindCharPosition(original_text, token.text, token.idx)
    IN  [type |-> type, text |-> token.text, message |-> message,
         start_char |-> start_char, end_char |-> EndChar(start_char, token.text)]

\* the test of _detect_subjective_terms on a token
FlagsSubjective(token, original_text) ==
    /\ Lower(token.text) \in subjective_terms
    /\ ShouldFlag(Lower(token.text), token.idx, original_text)

\* the test of _detect_weak_modality on a token
FlagsWeakModality(token) == token.text \in weak_modality_terms

\* _detect_subjective_terms(doc, original_text), the issues with their spans
SubjectiveTermsOf(tokens, original_text) ==
    LET hits == SelectSeq(tokens, LAMBDA token : FlagsSubjective(token, original_text))
    IN  [k \in 1..Len(hits) |->
            SpannedIssue("Subjective term", SubjectiveIssue(hits[k].text).message,
                         original_text, hits[k])]

\* _detect_weak_modality(doc, original_text), the issues with their spans
WeakModalityOf(tokens, original_text) ==
    LET hits == SelectSeq(tokens, LAMBDA token : FlagsWeakModality(token))
    IN  [k \in 1..Len(hits) |->
            SpannedIssue("Weak modality", WeakModalityIssue(hits[k].text).message,
                         original_text, hits[k])]

\* the words of the texts: terms of either detector, in either case, and a plain word
SpanVocabulary == {"should", "may", "fast", "Should", "the"}

RECURSIVE SpanTextsOfLength(_)
SpanTextsOfLength(n) ==
    IF n = 0 THEN {<<>>}
    ELSE {Append(t, w) : t \in SpanTextsOfLength(n - 1), w \in SpanVocabulary}

SpanTexts == UNION {SpanTextsOfLength(n) : n \in 0..MaxSpanWords}

\* the detector helpers take the Doc and the original text as two arguments: the Doc of
\* any text with the str of any text
InitSpans ==
    /\ pc = "input"
    /\ text \in SpanTexts
    /\ nlp = "en_core_web_sm"
    /\ doc \in {DocOf(Tokens(t)) : t \in SpanTexts}
    /\ IdleAmbiguity /\ IdleAssumption /\ IdleReadiness /\ IdleQuestions
    /\ IdleSuggestions /\ IdleAnalysis /\ IdleCache /\ IdleAppend

\* the two helpers are called on the Doc and the text
DetectSpans ==
    /\ pc = "input"
    /\ ambiguity_issues' =
           SubjectiveTermsOf(doc, Join(text)) \o WeakModalityOf(doc, Join(text))
    /\ pc' = "detected"
    /\ UNCHANGED <<text, detectorVars, ambiguity_analysis, assumptionVars, readinessVars,
                   questionVars, suggestionVars, analysisVars, cacheVars, appendVars>>

NextSpans == DetectSpans

SpecSpans == InitSpans /\ [][NextSpans]_vars

\* the token text does not occur in the lower-cased text at or after token.idx
NotFound(token, original_text) ==
    \A p \in token.idx..Len(original_text) :
        ~StartsAt(Lower(original_text), p + 1, token.text)

-----------------------------------------------------------------------------
(* The impact, question and suggestion lookups on issues in and out of their tables. *)

\* a kind, a category and a text that no table lists
UnlistedKind == "Unlisted kind"
UnlistedCategory == "Unknown"
UnlistedText == "zzz"

\* the matched texts: one listed under each kind, in either case, and one in no table
LookupTexts == {"fast", "Should", "it", UnlistedText}

\* an issue message of every kind, and one that names no kind
LookupMessages(tok) ==
    {SubjectiveIssue(tok).message, WeakModalityIssue(tok).message,
     UndefinedReferenceIssue(tok).message, NonTestableIssue(tok).message,
     "Wording is unclear"}

\* the ambiguity issues looked up: any kind with any text and any message
LookupAmbiguityIssues ==
    {[type |-> type, text |-> tok, message |-> message] :
        type \in {"Subjective term", "Weak modality", "Undefined reference",
                  "Non-testable statement", UnlistedKind},
        tok \in LookupTexts,
        message \in UNION {LookupMessages(t) : t \in LookupTexts}}

\* the assumption issues looked up: any category with any text and any assumption
LookupAssumptionIssues ==
    {[type |-> "Action assumption", category |-> category, text |-> tok,
      message |-> "Action '" \o tok \o "' implies assumption", assumption |-> assumption] :
        category \in {"Environment", "Data", "State", UnlistedCategory},
        tok \in {"delete", "UI interaction", UnlistedText},
        assumption \in {"User exists in the system", "Record exists in the system",
                        "admin_role_exists", UnlistedText}}

InitLookups ==
    /\ pc = "input"
    /\ text = <<>>
    /\ ambiguity_issues \in {<<issue>> : issue \in LookupAmbiguityIssues}
    /\ assumption_issues \in {<<issue>> : issue \in LookupAssumptionIssues}
    /\ ambiguity_analysis = NoAmbiguityAnalysis
    /\ assumption_analysis = NoAssumptionAnalysis
    /\ assumption_components = NoAssumptionComponents
    /\ IdleDetector /\ IdleReadiness /\ IdleQuestions /\ IdleSuggestions
    /\ IdleAnalysis /\ IdleCache /\ IdleAppend

\* the issues are formatted with their impact, and a question and a suggestion are
\* looked up for each
LookUp ==
    /\ pc = "input"
    /\ formatted_issues' = FormatIssuesWithImpact(ambiguity_issues \o assumption_issues)
    /\ questions' = <<GetAmbiguityQuestion(formatted_issues'[1]),
                      GetAssumptionQuestion(formatted_issues'[2])>>
    /\ suggestions' = <<GenerateAmbiguitySuggestion(ambiguity_issues[1]),
                        GenerateAssumptionSuggestion(assumption_issues[1])>>
    /\ pc' = "looked_up"
    /\ UNCHANGED <<text, detectorVars, ambiguityVars, assumptionVars, readinessVars,
                   given_issues, always_ask, analysisVars, cacheVars, appendVars>>

NextLookups == LookUp

SpecLookups == InitLookups /\ [][NextLookups]_vars

\* C20: for every issue, also one whose kind, category, matched text or assumption text
\* is in none of the tables, the two impact lookups, the two question lookups and the two
\* suggestion lookups return a non-empty string; what is in no table gets the default of
\* its lookup.
C20_LookupsFallBackToDefaults ==
    pc = "looked_up" =>
        LET ambiguity == ambiguity_issues[1]
            assumption == assumption_issues[1]
        IN  /\ \A k \in 1..2 : /\ formatted_issues[k].impact # ""
                               /\ questions[k] # ""
                               /\ suggestions[k] # ""
            /\ ambiguity.type = UnlistedKind =>
                   /\ formatted_issues[1].impact =
                          "May lead to unclear requirements and inconsistent testing"
                   /\ suggestions[1] =
                          "What specific criteria define '" \o ambiguity.text \o "'?"
            /\ ambiguity.message = "Wording is unclear" =>
                   questions[1] =
                       "What specific criteria should be used to evaluate this requirement?"
            /\ (assumption.category = UnlistedCategory
                    /\ assumption.assumption = UnlistedText) =>
                   /\ formatted_issues[2].impact =
                          "May lead to unexpected test behavior and automation failures"
                   /\ suggestions[2] = "What specific unknown requirements are needed?"
            /\ assumption.assumption = UnlistedText =>
                   questions[2] =
                       "What specific conditions or data are required for this test?"

\* an issue of an unlisted kind with an unlisted text and message, and an assumption of
\* an unlisted category with an unlisted text, were looked up
C20_Witness ==
    /\ pc = "looked_up"
    /\ ambiguity_issues[1].type = UnlistedKind
    /\ ambiguity_issues[1].text = UnlistedText
    /\ ambiguity_issues[1].message = "Wording is unclear"
    /\ assumption_issues[1].category = UnlistedCategory
    /\ assumption_issues[1].assumption = UnlistedText
    /\ assumption_issues[1].text = UnlistedText
    /\ suggestions[2] = "What specific unknown requirements are needed?"

-----------------------------------------------------------------------------
(* The strength labels of calculate_assumption_score. *)

\* an AssumptionIssue of a category with an assumption text
StrengthIssue(category, assumption) ==
    [type |-> "Action assumption", category |-> category, text |-> "open",
     message |-> "Action 'open' implies assumption", assumption |-> assumption]

\* for every category an assumption that holds a critical phrase of the category, one
\* that holds an optional phrase, one that holds both and one that holds neither
StrengthIssues ==
    {StrengthIssue("Environment", a) :
        a \in {"Browser, device, or platform is specified", "Internet connection is up",
               "Browser has an internet connection", "Locale is set"}}
    \cup {StrengthIssue("State", a) :
        a \in {"User is logged in and authenticated", "Notifications enabled",
               "Authenticated with notifications enabled", "Cart is open"}}
    \cup {StrengthIssue("Data", a) :
        a \in {"User exists in the system", "Sample data is loaded",
               "User exists with sample data", "Record exists in the system"}}

RECURSIVE StrengthListsOfLength(_)
StrengthListsOfLength(n) ==
    IF n = 0 THEN {<<>>}
    ELSE {Append(list, issue) : list \in StrengthListsOfLength(n - 1),
                                issue \in StrengthIssues}

StrengthIssueLists == UNION {StrengthListsOfLength(n) : n \in 0..MaxStrengthIssues}

InitStrength ==
    /\ pc = "input"
    /\ text = <<>>
    /\ assumption_issues \in StrengthIssueLists
    /\ assumption_analysis = NoAssumptionAnalysis
    /\ assumption_components = NoAssumptionComponents
    /\ IdleDetector /\ IdleAmbiguity /\ IdleReadiness /\ IdleQuestions
    /\ IdleSuggestions /\ IdleAnalysis /\ IdleCache /\ IdleAppend

NextStrength == ScoreAssumption

SpecStrength == InitStrength /\ [][NextStrength]_vars

\* the issue holds a critical phrase of its category, or holds no optional phrase of it
\* and is of a category whose default is STRONG
C23_IsStrong(issue) ==
    LET assumption_text == Lower(issue.assumption)
        critical == ContainsAny(assumption_text, Get(strong_patterns, issue.category, <<>>))
        optional == ContainsAny(assumption_text, Get(weak_patterns, issue.category, <<>>))
    IN  critical \/ (~optional /\ issue.category \in {"Environment", "State"})

\* the label returned for a category
C23_Label(category) ==
    CASE category = "Environment" -> assumption_analysis.components.environment.strength
      [] category = "State" -> assumption_analysis.components.state.strength
      [] category = "Data" -> assumption_analysis.components.data.strength

\* C23: for every category that holds an issue, the strength label is STRONG iff one of
\* its issues classifies as STRONG (a critical phrase, which goes before an optional
\* phrase of the same issue, or the default of Environment and State), and WEAK
\* otherwise; UNKNOWN is never the label.
C23_StrengthLabel ==
    pc = "done" =>
        \A category \in {"Environment", "State", "Data"} :
            LET held == {k \in 1..Len(assumption_issues) :
                            assumption_issues[k].category = category}
            IN  held # {} =>
                    /\ C23_Label(category) \in {"STRONG", "WEAK"}
                    /\ C23_Label(category) = "STRONG" <=>
                           \E k \in held : C23_IsStrong(assumption_issues[k])

\* a category whose one issue holds a critical and an optional phrase, next to an
\* Environment category whose one issue holds an optional phrase only
C23_Witness ==
    /\ pc = "done"
    /\ assumption_issues =
           <<StrengthIssue("Data", "User exists with sample data"),
             StrengthIssue("Environment", "Internet connection is up")>>
    /\ assumption_analysis.components.data.strength = "STRONG"
    /\ assumption_analysis.components.environment.strength = "WEAK"

-----------------------------------------------------------------------------
(* analyze_text, with the issues the two detectors gave it kept next to its result. *)

\* the words of the texts: a weak-modality term, a subjective term, a reference, the two
\* ends of a non-testable pattern, a UI action and the word of a context assumption
ResultVocabulary == {"should", "fast", "it", "handle", "properly", "click", "search"}

RECURSIVE ResultTextsOfLength(_)
ResultTextsOfLength(n) ==
    IF n = 0 THEN {<<>>}
    ELSE {Append(t, w) : t \in ResultTextsOfLength(n - 1), w \in ResultVocabulary}

ResultTexts == UNION {ResultTextsOfLength(n) : n \in 0..MaxResultWords}

InitResult ==
    /\ pc = "input"
    /\ text \in ResultTexts
    /\ nlp \in Pipelines /\ doc = NoDoc
    /\ IdleAmbiguity /\ IdleAssumption /\ IdleReadiness /\ IdleQuestions
    /\ IdleSuggestions /\ IdleAnalysis /\ IdleCache /\ IdleAppend

\* analyze_text(text): the lists detect_ambiguities and detect_assumptions returned are
\* the locals ambiguity_issues and assumption_issues of the call
AnalyzeAndKeep ==
    /\ pc = "input"
    /\ ambiguity_issues' = DetectAmbiguities(nlp, text)
    /\ assumption_issues' = DetectAssumptions(Join(text))
    /\ result' = AnalyzeText(nlp, text)
    /\ pc' = "analyzed"
    /\ UNCHANGED <<text, detectorVars, ambiguity_analysis, assumption_analysis,
                   assumption_components, readinessVars, questionVars, suggestionVars,
                   returned, cacheVars, appendVars>>

NextResult == AnalyzeAndKeep

SpecResult == InitResult /\ [][NextResult]_vars

\* the question the specification gives an ambiguity issue of a kind
C24_QuestionOfKind(type) ==
    CASE type = "Subjective term" ->
             "What specific, measurable criteria define success for this requirement?"
      [] type = "Weak modality" -> "Is this a mandatory requirement or optional behavior?"
      [] type = "Undefined reference" ->
             "What specific element or condition does this refer to?"
      [] type = "Non-testable statement" ->
             "What specific, observable behavior would indicate success?"

\* C24: in analyze_text the clarifying question of an ambiguity issue is the one of its
\* kind, for every issue the detector produces: the question of the kind of every
\* detected issue is among the clarifying questions of the result.
C24_QuestionSelectedByKind ==
    pc = "analyzed" =>
        \A k \in 1..Len(ambiguity_issues) :
            InList(C24_QuestionOfKind(ambiguity_issues[k].type), result.clarifying_questions)

\* C25: with a pipeline that assigns no part-of-speech and no dependency tags,
\* detect_ambiguities returns the subjective-term, weak-modality and non-testable issues
\* it returns with tags, and an undefined-reference issue for every token that is in the
\* reference list, the grammatical filter being skipped.
C25_BlankPipelineKeepsMatches ==
    (pc = "analyzed" /\ nlp = "blank") =>
        /\ \A type \in {"Subjective term", "Weak modality", "Non-testable statement"} :
               SelectSeq(ambiguity_issues, LAMBDA issue : issue.type = type)
                   = SelectSeq(DetectAmbiguities("en_core_web_sm", text),
                               LAMBDA issue : issue.type = type)
        /\ \A i \in 1..Len(text) :
               Lower(text[i]) \in undefined_references =>
                   \E k \in 1..Len(ambiguity_issues) :
                       /\ ambiguity_issues[k].type = "Undefined reference"
                       /\ ambiguity_issues[k].text = Lower(text[i])

\* the place of a kind in the order detect_ambiguities and detect_assumptions build
\* their lists in
C26_RankOfKind(type) ==
    CASE type = "Subjective term" -> 1
      [] type = "Weak modality" -> 2
      [] type = "Undefined reference" -> 3
      [] type = "Non-testable statement" -> 4
      [] type = "Action assumption" -> 5
      [] type = "Environment assumption" -> 6
      [] type = "Context assumption" -> 7

\* C26: the issues list of the result has one formatted entry for every detected issue,
\* none dropped, doubled or moved: the ambiguity issues first, in the order subjective
\* terms, weak modality, undefined references, non-testable statements, then the
\* assumption issues in the order action, environment, context.
C26_IssuesListKeepsDetectionOrder ==
    pc = "analyzed" =>
        LET detected == ambiguity_issues \o assumption_issues
        IN  /\ Len(result.issues) = Len(detected)
            /\ \A k \in 1..Len(detected) :
                   /\ result.issues[k].message = detected[k].message
                   /\ result.issues[k].type =
                          (IF k <= Len(ambiguity_issues) THEN "Ambiguity" ELSE "Assumption")
                   /\ k > Len(ambiguity_issues) =>
                          /\ result.issues[k].category = detected[k].category
                          /\ result.issues[k].assumption = detected[k].assumption
            /\ \A j, k \in 1..Len(detected) :
                   j < k => C26_RankOfKind(detected[j].type) <= C26_RankOfKind(detected[k].type)
            /\ ambiguity_issues = DetectAmbiguities(nlp, text)
            /\ assumption_issues = DetectAssumptions(Join(text))

\* a text that gives the same weak-modality issue twice, an action assumption and a
\* context assumption
C26_Witness ==
    /\ pc = "analyzed"
    /\ text = <<"should", "search", "should">>
    /\ Len(ambiguity_issues) = 2
    /\ ambiguity_issues[1] = ambiguity_issues[2]
    /\ Len(assumption_issues) = 2
    /\ assumption_issues[1].type = "Action assumption"
    /\ assumption_issues[2].type = "Context assumption"
    /\ Len(result.issues) = 4

-----------------------------------------------------------------------------
(* analyze_text_with_caching with the cache keyed by hash(text.lower().strip()). *)

\* the normalised forms of the texts analysed
NormalizedTexts == {CacheKey(t) : t \in AnalyzedTexts}

\* the values hash() takes
HashValues == 0..(2 ^ HashBits - 1)

\* hash() is fixed when the process starts and is any function of the str
InitHashed ==
    /\ pc = "ready"
    /\ text = <<>>
    /\ nlp \in Pipelines /\ doc = NoDoc
    /\ result = NoResult
    /\ returned = <<>>
    /\ score_cache = EmptyCache
    /\ clock = 0
    /\ callers = NoCallers
    /\ hash_of \in [NormalizedTexts -> HashValues]
    /\ IdleAmbiguity /\ IdleAssumption /\ IdleReadiness /\ IdleQuestions
    /\ IdleSuggestions /\ IdleAppend

\* a call of analyze_text_with_caching(t): the entry is looked up, and stored, under the
\* hash alone; the text is not kept in the entry and is not compared
CallWithHashedKey(t) ==
    LET text_hash == hash_of[CacheKey(t)]
    IN  /\ text' = t
        /\ IF /\ CacheHas(score_cache, text_hash)
              /\ IsFresh(CacheGet(score_cache, text_hash), clock)
           THEN /\ result' = CacheGet(score_cache, text_hash).result
                /\ pc' = "returned_cached"
                /\ UNCHANGED score_cache
           ELSE /\ result' = AnalysisTable[nlp][t]
                /\ score_cache' =
                       LimitCacheSize(CacheStore(score_cache,
                                                 CacheEntry(text_hash, result', clock)))
                /\ pc' = "returned_analysed"
        /\ UNCHANGED <<returned, clock, callers, hash_of, detectorVars, ambiguityVars,
                       assumptionVars, readinessVars, questionVars, suggestionVars,
                       appendVars>>

NextHashed ==
    \/ \E t \in AnalyzedTexts : CallWithHashedKey(t)
    \/ Tick

SpecHashed == InitHashed /\ [][NextHashed]_vars

\* C27: every call of analyze_text_with_caching returns the result analyze_text gives
\* for the text of that call, also when hash() takes one value on two normalised texts.
C27_CachedCallReturnsOwnAnalysis ==
    pc \in {"returned_cached", "returned_analysed"} => result = AnalysisTable[nlp][text]

-----------------------------------------------------------------------------
(* The readiness score and level analyze_text reports. *)

\* the words of the texts: action phrases, a UI action and a weak-modality term
ReportedVocabulary == {"click", "admin", "share", "report", "ensure", "might"}

RECURSIVE ReportedTextsOfLength(_)
ReportedTextsOfLength(n) ==
    IF n = 0 THEN {<<>>}
    ELSE {Append(t, w) : t \in ReportedTextsOfLength(n - 1), w \in ReportedVocabulary}

ReportedTexts == UNION {ReportedTextsOfLength(n) : n \in 0..MaxResultWords}

InitReported ==
    /\ pc = "input"
    /\ text \in ReportedTexts
    /\ nlp \in Pipelines /\ doc = NoDoc
    /\ IdleAmbiguity /\ IdleAssumption /\ IdleReadiness /\ IdleQuestions
    /\ IdleSuggestions /\ IdleAnalysis /\ IdleCache /\ IdleAppend

NextReported == AnalyzeAndKeep

SpecReported == InitReported /\ [][NextReported]_vars

\* C29: in every result of analyze_text the level agrees with the score as reported,
\* rounded to one decimal: "Ready" iff the reported score is at least 70, "Needs
\* clarification" iff it is at least 40 and below 70, "High risk for automation" iff it
\* is below 40.
C29_LevelAgreesWithReportedScore ==
    pc = "analyzed" =>
        /\ result.readiness_level = "Ready" <=> result.readiness_score >= 700
        /\ result.readiness_level = "Needs clarification" <=>
               (result.readiness_score >= 400 /\ result.readiness_score < 700)
        /\ result.readiness_level = "High risk for automation" <=>
               result.readiness_score < 400

-----------------------------------------------------------------------------
(* calculate_assumption_score called twice on one issue list with two texts. *)

\* the word counts of the texts handed to calculate_assumption_score: empty, shorter
\* than the floor of 5, the constant 50 itself, and longer than 100 words
RescoredLengths == {0, 1, AssumptionTextLength, 2 * AssumptionTextLength + 1}

RescoredTexts == {Filler(n) : n \in RescoredLengths}

\* issue lists of every category: none, one issue of each strength, and one issue
\* repeated, so that the density term grows with the list
RescoredIssueLists ==
    {<<>>} \cup {<<i>> : i \in StrengthIssues}
           \cup {Repeat(EnvironmentIssue, k) : k \in 1..MaxRepeat}
           \cup {Repeat(ActionIssue("delete", "record_exists"), k) : k \in 1..MaxRepeat}

InitRescored ==
    /\ pc = "input"
    /\ text \in RescoredTexts
    /\ assumption_issues \in RescoredIssueLists
    /\ assumption_analysis = NoAssumptionAnalysis
    /\ assumption_components = NoAssumptionComponents
    /\ IdleDetector /\ IdleAmbiguity /\ IdleReadiness /\ IdleQuestions
    /\ IdleSuggestions /\ IdleAnalysis /\ IdleCache /\ IdleAppend

\* the caller keeps the returned dict and calls again with the same list and text t
KeepAndCallAgain(t) ==
    /\ pc = "done"
    /\ previous = NoPrevious
    /\ previous' = [issues |-> assumption_issues, analysis |-> assumption_analysis]
    /\ text' = t
    /\ pc' = "input"
    /\ UNCHANGED <<detectorVars, assumptionVars, ambiguityVars, readinessVars,
                   questionVars, suggestionVars, analysisVars, cacheVars, appended>>

NextRescored ==
    \/ ScoreAssumption
    \/ \E t \in RescoredTexts : KeepAndCallAgain(t)

SpecRescored == InitRescored /\ [][NextRescored]_vars

=============================================================================
